---- MODULE Spec2Model ----
(***************************************************************************)
(* A model of Marabou's ReluConstraint (src/engine/ReluConstraint.cpp):    *)
(* the constraint  f = ReLU(b)  with an optional slack  aux = f - b.       *)
(*                                                                         *)
(* Numbers.  The code computes with doubles and compares them through      *)
(* FloatUtils with a small tolerance.  The model takes its values from a   *)
(* grid of integers whose unit is larger than every tolerance, so that a   *)
(* tolerant comparison of two grid values is the exact comparison.         *)
(* FloatUtils::infinity() is the integer Inf, one more than every value.   *)
(*                                                                         *)
(* Collaborators.  The bound manager, the base class                       *)
(* PiecewiseLinearConstraint and FloatUtils are not part of the modelled   *)
(* file; they are modelled from their contracts.  The bound manager is a   *)
(* store of bounds that accepts a bound only when it is strictly tighter   *)
(* and does not call back into the constraint.                             *)
(***************************************************************************)
EXTENDS Integers, Sequences, FiniteSets, TLC

\* Values range over -MaxVal..MaxVal.
MaxVal == 2
\* The number of bound notifications of one run.
MaxCalls == 2

\* Tableau coefficients range over -MaxCoefficient..MaxCoefficient, without 0.
MaxCoefficient == 2

\* Variable indices written to text range over 0..MaxId.
MaxId == 12

\* Reindexing moves variables to indices of 0..MaxIndex.
MaxIndex == 3

Values == (0 - MaxVal)..MaxVal
Inf == MaxVal + 1
VarIds == 0..2
\* The index the tableau gives its own slack: the next free one.
TableauAuxId == Cardinality(VarIds)

PHASE_NOT_FIXED == "PHASE_NOT_FIXED"
RELU_PHASE_ACTIVE == "RELU_PHASE_ACTIVE"
RELU_PHASE_INACTIVE == "RELU_PHASE_INACTIVE"
LB == "LB"
UB == "UB"
\* A null _tighteningRow; a built row is a one-element sequence.
NULL == << >>

VARIABLES
    b, f, aux,            \* _b, _f, _aux
    auxVarInUse,          \* _auxVarInUse
    phaseStatus,          \* _phaseStatus
    lowerBounds,          \* _lowerBounds: the constraint's own cache
    upperBounds,          \* _upperBounds
    constraintActive,     \* _constraintActive
    tighteningRow,        \* _tighteningRow, NULL until built
    tableauAuxVars,       \* _tableauAuxVars
    assignment,           \* _assignment
    boundManager,         \* _boundManager != nullptr
    produceProofs,        \* _boundManager->shouldProduceProofs()
    bmLower, bmUpper,     \* the bounds the bound manager holds
    issued,               \* the tightenings the last call sent to the bound manager
    outcome,              \* how the last call ended
    lastCall,             \* the last call: its arguments, the bound it acted
                          \* on, whether its bound was strictly tighter than
                          \* the one known, and the phase it found
    returned,             \* what the last query returned
    nCalls,
    direction,            \* _direction: the branching hint
    tableau,              \* the tableau's answers about b and f
    query,                \* the Query handed to transformToUseAuxVariables
    other,                \* the other instance after duplicateConstraint or
                          \* construction from text, NoInstance before
    score,                \* _score: the branching score
    haveEliminatedVariables   \* _haveEliminatedVariables

vars == << b, f, aux, auxVarInUse, phaseStatus, lowerBounds, upperBounds,
           constraintActive, tighteningRow, tableauAuxVars, assignment,
           boundManager, produceProofs, bmLower, bmUpper, issued, outcome,
           lastCall, returned, nCalls, direction, tableau, query, other,
           score, haveEliminatedVariables >>

----------------------------------------------------------------------------
(* FloatUtils, on the grid. *)

DEFAULT_EPSILON == 0
CONSTRAINT_COMPARISON_TOLERANCE == 0

Abs(x) == IF x < 0 THEN 0 - x ELSE x
isPositive(x) == x > DEFAULT_EPSILON
isNegative(x) == x < 0 - DEFAULT_EPSILON
isZero(x) == ~isPositive(x) /\ ~isNegative(x)
gt(x, y) == isPositive(x - y)
lt(x, y) == gt(y, x)
areEqual(x, y, epsilon) == Abs(x - y) <= epsilon

----------------------------------------------------------------------------
(* PiecewiseLinearConstraint: the base class's accessors. *)

existsLowerBound(variable) == variable \in DOMAIN lowerBounds
existsUpperBound(variable) == variable \in DOMAIN upperBounds
existsAssignment(variable) == variable \in DOMAIN assignment
getAssignment(variable) == assignment[variable]
isActive == constraintActive

\* Map::operator[]= on a cache of bounds or on the assignment.
MapSet(map, key, value) ==
    [k \in (DOMAIN map) \cup {key} |-> IF k = key THEN value ELSE map[k]]

EmptyMap == [k \in {} |-> 0]

----------------------------------------------------------------------------
(* Calls to the bound manager.  A tightening is what the call asks for    *)
(* together with the justification the call passes.                       *)

Tightening(variable, value, type, just) ==
    [variable |-> variable, value |-> value, type |-> type, just |-> just]

\* tightenLowerBound( variable, value ) and tightenUpperBound( variable, value )
NoJustification ==
    [kind |-> "none", cause |-> 0 - 1, causeType |-> "none", tag |-> "none"]

\* tighten...Bound( variable, value, *_tighteningRow ): the row passed is the
\* built row, or the referent of a null pointer.
RowJustification(row) ==
    [kind |-> IF row = NULL THEN "unbuilt_row" ELSE "row",
     cause |-> 0 - 1, causeType |-> "none", tag |-> "none"]

\* addLemmaExplanationAndTightenBound( ..., { cause }, causeType, getType() )
LemmaJustification(cause, causeType) ==
    [kind |-> "lemma", cause |-> cause, causeType |-> causeType, tag |-> "RELU"]

----------------------------------------------------------------------------
(* Phase fixation. *)

\* A faulty variant: b's lower bound must be positive to fix the phase.
MutLowerFixB(phase, variable, bound) ==
    IF variable = f /\ isPositive(bound) THEN RELU_PHASE_ACTIVE
    ELSE IF variable = b /\ isPositive(bound) THEN RELU_PHASE_ACTIVE
    ELSE IF auxVarInUse /\ variable = aux /\ isPositive(bound)
         THEN RELU_PHASE_INACTIVE
    ELSE phase

\* The phase after checkIfLowerBoundUpdateFixesPhase( variable, bound ).
checkIfLowerBoundUpdateFixesPhase(phase, variable, bound) ==
    IF variable = f /\ isPositive(bound) THEN RELU_PHASE_ACTIVE
    ELSE IF variable = b /\ ~isNegative(bound) THEN RELU_PHASE_ACTIVE
    ELSE IF auxVarInUse /\ variable = aux /\ isPositive(bound)
         THEN RELU_PHASE_INACTIVE
    ELSE phase

\* A faulty variant: any non-positive upper bound of aux fixes the phase.
MutUpperFixAux(phase, variable, bound) ==
    LET p1 == IF (variable = f \/ variable = b) /\ ~isPositive(bound)
              THEN RELU_PHASE_INACTIVE ELSE phase
    IN  IF auxVarInUse /\ variable = aux /\ ~isPositive(bound)
        THEN RELU_PHASE_ACTIVE ELSE p1

\* A faulty variant: an upper bound never fixes the phase.
MutUpperFixNever(phase, variable, bound) == phase

\* The phase after checkIfUpperBoundUpdateFixesPhase( variable, bound ):
\* two independent tests, the second one able to overwrite the first.
checkIfUpperBoundUpdateFixesPhase(phase, variable, bound) ==
    LET p1 == IF (variable = f \/ variable = b) /\ ~isPositive(bound)
              THEN RELU_PHASE_INACTIVE ELSE phase
    IN  IF auxVarInUse /\ variable = aux /\ isZero(bound)
        THEN RELU_PHASE_ACTIVE ELSE p1

phaseFixed == phaseStatus # PHASE_NOT_FIXED

----------------------------------------------------------------------------
(* The proof row. *)

\* A faulty variant: the row is written for b instead of f.
MutCreateTighteningRow(boundExplainer) ==
    IF ~boundExplainer \/ tighteningRow # NULL \/ ~auxVarInUse
       \/ tableauAuxVars = << >>
    THEN tighteningRow
    ELSE << [lhs |-> b,
             row |-> << [var |-> f, coefficient |-> 1],
                        [var |-> aux, coefficient |-> 1],
                        [var |-> tableauAuxVars[Len(tableauAuxVars)],
                         coefficient |-> 1] >>,
             scalar |-> 0] >>

\* _tighteningRow after createTighteningRow(); boundExplainer says whether
\* the bound manager has a bound explainer, which it has exactly when it
\* produces proofs.
createTighteningRow(boundExplainer) ==
    IF ~boundExplainer \/ tighteningRow # NULL \/ ~auxVarInUse
       \/ tableauAuxVars = << >>
    THEN tighteningRow
    ELSE << [lhs |-> f,
             row |-> << [var |-> b, coefficient |-> 1],
                        [var |-> aux, coefficient |-> 1],
                        [var |-> tableauAuxVars[Len(tableauAuxVars)],
                         coefficient |-> 1] >>,
             scalar |-> 0] >>

----------------------------------------------------------------------------
(* notifyLowerBound *)

\* A faulty variant: the notified variable is taken for its own partner.
MutPartnerOf(variable) == IF variable = f THEN f ELSE b

\* unsigned partner = ( variable == _f ) ? _b : _f;
partnerOf(variable) == IF variable = f THEN b ELSE f

\* A faulty variant: the negation of the bound passed on is forgotten.
MutLowerBoundPropagation(variable, bound, phase, row, proofs) ==
    IF (variable = f \/ variable = b) /\ bound > 0
    THEN << Tightening(partnerOf(variable), bound, LB, NoJustification) >>
    ELSE IF auxVarInUse /\ variable = aux /\ bound > 0
    THEN << Tightening(f, 0, UB, NoJustification),
            Tightening(b, bound, UB, NoJustification) >>
    ELSE IF auxVarInUse /\ variable = b /\ bound < 0
    THEN << Tightening(aux, bound, UB, NoJustification) >>
    ELSE << >>

\* The calls notifyLowerBound makes to the bound manager once the phase
\* has been looked at and the constraint is active: phase and row are
\* _phaseStatus and _tighteningRow at that point.
lowerBoundPropagation(variable, bound, phase, row, proofs) ==
    LET auxToZero ==
            IF proofs /\ auxVarInUse
            THEN << Tightening(aux, 0, UB, LemmaJustification(variable, LB)) >>
            ELSE IF ~proofs /\ auxVarInUse
            THEN << Tightening(aux, 0, UB, NoJustification) >>
            ELSE << >>
        partner == partnerOf(variable)
    IN  IF (variable = f \/ variable = b) /\ bound > 0
        THEN auxToZero
             \o << Tightening(partner, bound, LB, RowJustification(row)) >>
        ELSE IF auxVarInUse /\ variable = b /\ isZero(bound)
        THEN auxToZero
        ELSE IF auxVarInUse /\ variable = aux /\ bound > 0
        THEN << IF proofs
                THEN Tightening(f, 0, UB, LemmaJustification(variable, LB))
                ELSE Tightening(f, 0, UB, NoJustification),
                Tightening(b, 0 - bound, UB, RowJustification(row)) >>
        ELSE IF auxVarInUse /\ variable = b /\ bound < 0
        THEN IF proofs
             THEN IF phase = RELU_PHASE_INACTIVE
                  THEN << Tightening(aux, 0 - bound, UB, RowJustification(row)) >>
                  ELSE IF phase = PHASE_NOT_FIXED
                  THEN << Tightening(aux, 0 - bound, UB,
                                     LemmaJustification(variable, LB)) >>
                  ELSE << >>
             ELSE << Tightening(aux, 0 - bound, UB, NoJustification) >>
        ELSE IF bound < 0 /\ variable = f
        THEN IF proofs
             THEN << Tightening(f, 0, LB, LemmaJustification(variable, LB)) >>
             ELSE << Tightening(f, 0, LB, NoJustification) >>
        ELSE << >>

\* A faulty variant: the comparison of the early return is reversed.
MutLowerBoundAccepted(variable, newBound) ==
    ~(existsLowerBound(variable) /\ ~lt(newBound, lowerBounds[variable]))

\* Standalone mode: whether notifyLowerBound goes past its early return.
lowerBoundAccepted(variable, newBound) ==
    ~(existsLowerBound(variable) /\ ~gt(newBound, lowerBounds[variable]))

\* What notifyLowerBound( variable, newBound ) leaves behind.  lbs are the
\* lower bounds getLowerBound reads when a bound manager is attached.
notifyLowerBound(lbs, variable, newBound, proofs) ==
    LET same == [lowerBounds |-> lowerBounds, phase |-> phaseStatus,
                 row |-> tighteningRow, issued |-> << >>,
                 infeasible |-> FALSE]
    IN  IF ~boundManager
        THEN IF ~lowerBoundAccepted(variable, newBound)
             THEN same
             ELSE [same EXCEPT
                     !.lowerBounds = MapSet(lowerBounds, variable, newBound),
                     !.phase = checkIfLowerBoundUpdateFixesPhase(
                                   phaseStatus, variable, newBound)]
        ELSE IF ~phaseFixed
        THEN LET bound == lbs[variable]
                 phase == checkIfLowerBoundUpdateFixesPhase(
                              phaseStatus, variable, bound)
                 row == IF proofs THEN createTighteningRow(proofs) ELSE tighteningRow
             IN  IF isActive
                 THEN [same EXCEPT
                         !.phase = phase, !.row = row,
                         !.issued = lowerBoundPropagation(
                                        variable, bound, phase, row, proofs)]
                 ELSE [same EXCEPT !.phase = phase]
        ELSE same

----------------------------------------------------------------------------
(* notifyUpperBound *)

\* A faulty variant: a bound of b is passed on to f whatever its sign.
MutUpperBoundPropagation(variable, bound, phase, row, proofs) ==
    [issued |-> IF variable = f
                THEN << Tightening(b, bound, UB, NoJustification) >>
                ELSE IF variable = b
                THEN << Tightening(f, bound, UB, NoJustification) >>
                ELSE IF auxVarInUse /\ variable = aux
                THEN << Tightening(b, 0 - bound, LB, NoJustification) >>
                ELSE << >>,
     infeasible |-> FALSE]

\* The calls notifyUpperBound makes to the bound manager once the phase
\* has been looked at and the constraint is active, and whether it throws
\* InfeasibleQueryException instead.
upperBoundPropagation(variable, bound, phase, row, proofs) ==
    LET calls(seq) == [issued |-> seq, infeasible |-> FALSE]
    IN  IF variable = f
        THEN IF proofs
             THEN IF phase # RELU_PHASE_INACTIVE
                  THEN calls(<< Tightening(b, bound, UB, RowJustification(row)) >>)
                  ELSE IF isZero(bound)
                  THEN calls(<< Tightening(b, 0, UB,
                                           LemmaJustification(variable, UB)) >>)
                  ELSE IF isNegative(bound)
                  THEN [issued |-> << >>, infeasible |-> TRUE]
                  ELSE calls(<< >>)
             ELSE calls(<< Tightening(b, bound, UB, NoJustification) >>)
        ELSE IF variable = b
        THEN IF ~isPositive(bound)
             THEN calls(
                    << IF proofs
                       THEN Tightening(f, 0, UB, LemmaJustification(variable, UB))
                       ELSE Tightening(f, 0, UB, NoJustification) >>
                    \o (IF auxVarInUse
                        THEN << Tightening(aux, 0 - bound, LB,
                                           RowJustification(row)) >>
                        ELSE << >>))
             ELSE IF proofs
             THEN IF phase = RELU_PHASE_ACTIVE
                  THEN calls(<< Tightening(f, bound, UB, RowJustification(row)) >>)
                  ELSE IF phase = PHASE_NOT_FIXED
                  THEN calls(<< Tightening(f, bound, UB,
                                           LemmaJustification(variable, UB)) >>)
                  ELSE calls(<< >>)
             ELSE calls(<< Tightening(f, bound, UB, NoJustification) >>)
        ELSE IF auxVarInUse /\ variable = aux
        THEN IF proofs
             THEN IF phase # RELU_PHASE_ACTIVE
                  THEN calls(<< Tightening(b, 0 - bound, LB,
                                           RowJustification(row)) >>)
                  ELSE IF isZero(bound)
                  THEN calls(<< Tightening(b, 0, LB,
                                           LemmaJustification(variable, UB)) >>)
                  ELSE IF isNegative(bound)
                  THEN [issued |-> << >>, infeasible |-> TRUE]
                  ELSE calls(<< >>)
             ELSE calls(<< Tightening(b, 0 - bound, LB, NoJustification) >>)
        ELSE calls(<< >>)

\* Standalone mode: whether notifyUpperBound goes past its early return.
upperBoundAccepted(variable, newBound) ==
    ~(existsUpperBound(variable) /\ ~lt(newBound, upperBounds[variable]))

\* What notifyUpperBound( variable, newBound ) leaves behind.  ubs are the
\* upper bounds getUpperBound reads when a bound manager is attached.
notifyUpperBound(ubs, variable, newBound, proofs) ==
    LET same == [upperBounds |-> upperBounds, phase |-> phaseStatus,
                 row |-> tighteningRow, issued |-> << >>,
                 infeasible |-> FALSE]
    IN  IF ~boundManager
        THEN IF ~upperBoundAccepted(variable, newBound)
             THEN same
             ELSE [same EXCEPT
                     !.upperBounds = MapSet(upperBounds, variable, newBound),
                     !.phase = checkIfUpperBoundUpdateFixesPhase(
                                   phaseStatus, variable, newBound)]
        ELSE IF ~phaseFixed
        THEN LET bound == ubs[variable]
                 phase == checkIfUpperBoundUpdateFixesPhase(
                              phaseStatus, variable, bound)
                 row == IF proofs THEN createTighteningRow(proofs) ELSE tighteningRow
                 prop == upperBoundPropagation(variable, bound, phase, row, proofs)
             IN  IF isActive
                 THEN [same EXCEPT
                         !.phase = phase, !.row = row,
                         !.issued = prop.issued,
                         !.infeasible = prop.infeasible]
                 ELSE [same EXCEPT !.phase = phase]
        ELSE same

----------------------------------------------------------------------------
(* The bound manager: it holds one lower and one upper bound per variable  *)
(* and takes a bound only when it is strictly tighter.                     *)

bmSetLowerBound(lbs, variable, value) ==
    IF value > lbs[variable] THEN [lbs EXCEPT ![variable] = value] ELSE lbs

bmSetUpperBound(ubs, variable, value) ==
    IF value < ubs[variable] THEN [ubs EXCEPT ![variable] = value] ELSE ubs

RECURSIVE bmApplyLower(_, _)
bmApplyLower(lbs, calls) ==
    IF calls = << >> THEN lbs
    ELSE LET t == Head(calls)
         IN  bmApplyLower(IF t.type = LB
                          THEN bmSetLowerBound(lbs, t.variable, t.value)
                          ELSE lbs,
                          Tail(calls))

RECURSIVE bmApplyUpper(_, _)
bmApplyUpper(ubs, calls) ==
    IF calls = << >> THEN ubs
    ELSE LET t == Head(calls)
         IN  bmApplyUpper(IF t.type = UB
                          THEN bmSetUpperBound(ubs, t.variable, t.value)
                          ELSE ubs,
                          Tail(calls))

\* How a call ends.  A call that hands the referent of a null
\* _tighteningRow to a proof-producing bound manager has undefined
\* behaviour: it may go on, or stop the process.
Outcomes(calls, infeasible) ==
    IF infeasible THEN {"infeasible"}
    ELSE IF produceProofs
            /\ \E i \in 1..Len(calls) : calls[i].just.kind = "unbuilt_row"
    THEN {"ok", "crash"}
    ELSE {"ok"}

----------------------------------------------------------------------------
(* The state machine of bound notifications. *)

NoCall == [op |-> "none", variable |-> 0, newBound |-> 0, bound |-> 0,
           tighter |-> FALSE, entryPhase |-> PHASE_NOT_FIXED]

\* Exact quotients of grid values: the doubles that a division of two grid
\* values yields.  A quotient is kept in lowest terms with a positive
\* denominator, so that equal quotients are equal records.
RECURSIVE Gcd(_, _)
Gcd(x, y) == IF y = 0 THEN x ELSE Gcd(y, x % y)

Quotient(n, d) ==
    LET s == IF d < 0 THEN 0 - 1 ELSE 1
        g == Gcd(Abs(n), Abs(d))
    IN  [num |-> (s * n) \div g, den |-> (s * d) \div g]

Whole(n) == [num |-> n, den |-> 1]
Plus(x, y) == Quotient(x.num * y.den + y.num * x.den, x.den * y.den)
Minus(x, y) == Quotient(x.num * y.den - y.num * x.den, x.den * y.den)
Times(x, y) == Quotient(x.num * y.num, x.den * y.den)
Over(x, y) == Quotient(x.num * y.den, x.den * y.num)
Negated(x) == [num |-> 0 - x.num, den |-> x.den]

\* A tableau in which b and f are unrelated.
NoTableau == [linearlyDependent |-> FALSE, bIsBasic |-> FALSE,
              fIsBasic |-> FALSE, bDeltaToFDelta |-> Whole(0),
              fDeltaToBDelta |-> Whole(0)]

\* No other instance exists; an instance is a one-element sequence.
NoInstance == << >>

\* The other instance once this one's caches of bounds have become lower
\* and upper: an instance that holds its own caches is not touched; one
\* whose caches are this instance's own storage sees them change.
otherAfter(lower, upper) ==
    IF other = NoInstance THEN other
    ELSE IF other[1].ownBounds THEN other
    ELSE << [other[1] EXCEPT !.lowerBounds = lower, !.upperBounds = upper] >>

\* The equation  f - b - aux = 0  that defines the slack.
AuxEquation(fVar, bVar, auxVar) ==
    [type |-> "EQ",
     addends |-> << << 1, fVar >>, << 0 - 1, bVar >>, << 0 - 1, auxVar >> >>,
     scalar |-> 0]

\* The query of a constraint over b and f; when the slack is already in
\* use the query holds it, its equation and its bounds.
InitialQuery(inUse, auxVar) ==
    IF inUse
    THEN [numberOfVariables |-> auxVar + 1,
          equations |-> << AuxEquation(1, 0, auxVar) >>,
          lowerBounds |-> MapSet(EmptyMap, auxVar, 0),
          upperBounds |-> MapSet(EmptyMap, auxVar, Inf)]
    ELSE [numberOfVariables |-> Cardinality({0, 1}),
          equations |-> << >>,
          lowerBounds |-> EmptyMap,
          upperBounds |-> EmptyMap]

Init ==
    /\ b = 0
    /\ f = 1
    /\ auxVarInUse \in BOOLEAN
    \* The two-variable constructor leaves _aux uninitialized.
    /\ aux \in IF auxVarInUse THEN {2} ELSE VarIds
    /\ phaseStatus = PHASE_NOT_FIXED
    /\ lowerBounds = EmptyMap
    /\ upperBounds = EmptyMap
    /\ boundManager \in BOOLEAN
    /\ constraintActive \in IF boundManager THEN BOOLEAN ELSE {TRUE}
    /\ produceProofs \in IF boundManager THEN BOOLEAN ELSE {FALSE}
    /\ tableauAuxVars \in IF produceProofs /\ auxVarInUse
                          THEN {<< >>, << TableauAuxId >>} ELSE {<< >>}
    /\ tighteningRow = NULL
    /\ assignment = EmptyMap
    /\ bmLower = [v \in VarIds |-> 0 - Inf]
    /\ bmUpper = [v \in VarIds |-> Inf]
    /\ issued = << >>
    /\ outcome = "ok"
    /\ lastCall = NoCall
    /\ returned = "none"
    /\ nCalls = 0
    /\ direction = PHASE_NOT_FIXED
    /\ tableau = NoTableau
    /\ query = InitialQuery(auxVarInUse, aux)
    /\ other = NoInstance
    /\ score = Whole(0 - Inf)
    /\ haveEliminatedVariables = FALSE

\* A lower bound is notified.  With a bound manager attached, the bound
\* manager has taken the bound (when tighter) before its watchers hear of it.
NotifyLowerBound(variable, newBound) ==
    /\ nCalls < MaxCalls
    /\ outcome # "crash"
    /\ LET lbs == bmSetLowerBound(bmLower, variable, newBound)
           r == notifyLowerBound(lbs, variable, newBound, produceProofs)
       IN  /\ lowerBounds' = r.lowerBounds
           /\ phaseStatus' = r.phase
           /\ tighteningRow' = r.row
           /\ issued' = r.issued
           /\ outcome' \in Outcomes(r.issued, r.infeasible)
           /\ bmLower' = IF boundManager THEN bmApplyLower(lbs, r.issued)
                         ELSE bmLower
           /\ bmUpper' = IF boundManager THEN bmApplyUpper(bmUpper, r.issued)
                         ELSE bmUpper
           /\ lastCall' =
                [op |-> "notifyLowerBound", variable |-> variable,
                 newBound |-> newBound,
                 bound |-> IF boundManager THEN lbs[variable] ELSE newBound,
                 tighter |-> IF boundManager THEN newBound > bmLower[variable]
                             ELSE \/ variable \notin DOMAIN lowerBounds
                                  \/ newBound > lowerBounds[variable],
                 entryPhase |-> phaseStatus]
           /\ other' = otherAfter(r.lowerBounds, upperBounds)
    /\ nCalls' = nCalls + 1
    /\ UNCHANGED << b, f, aux, auxVarInUse, upperBounds, constraintActive,
                    tableauAuxVars, assignment, boundManager, produceProofs,
                    returned, direction, tableau, query,
                    score, haveEliminatedVariables >>

NotifyUpperBound(variable, newBound) ==
    /\ nCalls < MaxCalls
    /\ outcome # "crash"
    /\ LET ubs == bmSetUpperBound(bmUpper, variable, newBound)
           r == notifyUpperBound(ubs, variable, newBound, produceProofs)
       IN  /\ upperBounds' = r.upperBounds
           /\ phaseStatus' = r.phase
           /\ tighteningRow' = r.row
           /\ issued' = r.issued
           /\ outcome' \in Outcomes(r.issued, r.infeasible)
           /\ bmLower' = IF boundManager THEN bmApplyLower(bmLower, r.issued)
                         ELSE bmLower
           /\ bmUpper' = IF boundManager THEN bmApplyUpper(ubs, r.issued)
                         ELSE bmUpper
           /\ lastCall' =
                [op |-> "notifyUpperBound", variable |-> variable,
                 newBound |-> newBound,
                 bound |-> IF boundManager THEN ubs[variable] ELSE newBound,
                 tighter |-> IF boundManager THEN newBound < bmUpper[variable]
                             ELSE \/ variable \notin DOMAIN upperBounds
                                  \/ newBound < upperBounds[variable],
                 entryPhase |-> phaseStatus]
           /\ other' = otherAfter(lowerBounds, r.upperBounds)
    /\ nCalls' = nCalls + 1
    /\ UNCHANGED << b, f, aux, auxVarInUse, lowerBounds, constraintActive,
                    tableauAuxVars, assignment, boundManager, produceProofs,
                    returned, direction, tableau, query,
                    score, haveEliminatedVariables >>

Next ==
    \/ \E variable \in VarIds, newBound \in Values :
           NotifyLowerBound(variable, newBound)
    \/ \E variable \in VarIds, newBound \in Values :
           NotifyUpperBound(variable, newBound)

Spec == Init /\ [][Next]_vars

----------------------------------------------------------------------------
(* satisfied *)

\* A faulty variant: with f zero, b must be zero as well.
MutSatisfiedZero ==
    IF ~(existsAssignment(b) /\ existsAssignment(f))
    THEN "PARTICIPATING_VARIABLE_MISSING_ASSIGNMENT"
    ELSE LET bValue == getAssignment(b)
             fValue == getAssignment(f)
         IN  IF isNegative(fValue) THEN "false"
             ELSE IF isPositive(fValue)
             THEN IF areEqual(bValue, fValue, CONSTRAINT_COMPARISON_TOLERANCE)
                  THEN "true" ELSE "false"
             ELSE IF isZero(bValue) THEN "true" ELSE "false"

\* A faulty variant: only b's assignment is looked for.
MutSatisfiedMissing ==
    IF ~existsAssignment(b)
    THEN "PARTICIPATING_VARIABLE_MISSING_ASSIGNMENT"
    ELSE LET bValue == getAssignment(b)
             fValue == IF existsAssignment(f) THEN getAssignment(f) ELSE 0
         IN  IF isNegative(fValue) THEN "false"
             ELSE IF isPositive(fValue)
             THEN IF areEqual(bValue, fValue, CONSTRAINT_COMPARISON_TOLERANCE)
                  THEN "true" ELSE "false"
             ELSE IF ~isPositive(bValue) THEN "true" ELSE "false"

\* What satisfied() returns, or the MarabouError it throws.
satisfied ==
    IF ~(existsAssignment(b) /\ existsAssignment(f))
    THEN "PARTICIPATING_VARIABLE_MISSING_ASSIGNMENT"
    ELSE LET bValue == getAssignment(b)
             fValue == getAssignment(f)
         IN  IF isNegative(fValue) THEN "false"
             ELSE IF isPositive(fValue)
             THEN IF areEqual(bValue, fValue, CONSTRAINT_COMPARISON_TOLERANCE)
                  THEN "true" ELSE "false"
             ELSE IF ~isPositive(bValue) THEN "true" ELSE "false"

\* The tableau gives a variable a value.
SetAssignment(variable, value) ==
    /\ assignment' = MapSet(assignment, variable, value)
    /\ lastCall' = [NoCall EXCEPT !.op = "setAssignment", !.variable = variable]
    /\ returned' = "none"
    /\ UNCHANGED << b, f, aux, auxVarInUse, phaseStatus, lowerBounds,
                    upperBounds, constraintActive, tighteningRow,
                    tableauAuxVars, boundManager, produceProofs, bmLower,
                    bmUpper, issued, outcome, nCalls, direction, tableau,
                    query, other,
                    score, haveEliminatedVariables >>

CallSatisfied ==
    /\ returned' = satisfied
    /\ lastCall' = [NoCall EXCEPT !.op = "satisfied"]
    /\ UNCHANGED << b, f, aux, auxVarInUse, phaseStatus, lowerBounds,
                    upperBounds, constraintActive, tighteningRow,
                    tableauAuxVars, assignment, boundManager, produceProofs,
                    bmLower, bmUpper, issued, outcome, nCalls, direction,
                    tableau, query, other,
                    score, haveEliminatedVariables >>

NextSat ==
    \/ \E variable \in VarIds, value \in Values :
           SetAssignment(variable, value)
    \/ CallSatisfied

SpecSat == Init /\ [][NextSat]_vars

----------------------------------------------------------------------------
(* Case splits. *)

\* Tightening( variable, value, type ) as a case split stores it.
BoundTightening(variable, value, type) ==
    [variable |-> variable, value |-> value, type |-> type]

\* Equation( EQ ) with its addends ( coefficient, variable ) and scalar.
Equation(addends, scalar) ==
    [type |-> "EQ", addends |-> addends, scalar |-> scalar]

PiecewiseLinearCaseSplit(tightenings, equations) ==
    [tightenings |-> tightenings, equations |-> equations]

getInactiveSplit ==
    PiecewiseLinearCaseSplit(
        << BoundTightening(b, 0, UB), BoundTightening(f, 0, UB) >>, << >>)

\* A faulty variant: the equation b - f = 0 is added even with the slack.
MutGetActiveSplit ==
    PiecewiseLinearCaseSplit(
        << BoundTightening(b, 0, LB) >>,
        << Equation(<< << 1, b >>, << 0 - 1, f >> >>, 0) >>)

getActiveSplit ==
    IF auxVarInUse
    THEN PiecewiseLinearCaseSplit(
             << BoundTightening(b, 0, LB), BoundTightening(aux, 0, UB) >>,
             << >>)
    ELSE PiecewiseLinearCaseSplit(
             << BoundTightening(b, 0, LB) >>,
             << Equation(<< << 1, b >>, << 0 - 1, f >> >>, 0) >>)

\* A faulty variant: a fixed phase is answered with the splits.
MutGetCaseSplits ==
    [error |-> "none",
     splits |-> IF direction = RELU_PHASE_INACTIVE
                THEN << getInactiveSplit, getActiveSplit >>
                ELSE IF direction = RELU_PHASE_ACTIVE
                THEN << getActiveSplit, getInactiveSplit >>
                ELSE IF existsAssignment(f) /\ isPositive(getAssignment(f))
                THEN << getActiveSplit, getInactiveSplit >>
                ELSE << getInactiveSplit, getActiveSplit >>]

\* The list getCaseSplits() returns, or the MarabouError it throws.
getCaseSplits ==
    IF phaseStatus # PHASE_NOT_FIXED
    THEN [error |-> "REQUESTED_CASE_SPLITS_FROM_FIXED_CONSTRAINT",
          splits |-> << >>]
    ELSE [error |-> "none",
          splits |->
              IF direction = RELU_PHASE_INACTIVE
              THEN << getInactiveSplit, getActiveSplit >>
              ELSE IF direction = RELU_PHASE_ACTIVE
              THEN << getActiveSplit, getInactiveSplit >>
              ELSE IF existsAssignment(f)
              THEN IF isPositive(getAssignment(f))
                   THEN << getActiveSplit, getInactiveSplit >>
                   ELSE << getInactiveSplit, getActiveSplit >>
              ELSE << getInactiveSplit, getActiveSplit >>]

\* A faulty variant: the assignment of f is consulted before the hint.
MutGetAllCases ==
    IF existsAssignment(f)
    THEN IF isPositive(getAssignment(f))
         THEN << RELU_PHASE_ACTIVE, RELU_PHASE_INACTIVE >>
         ELSE << RELU_PHASE_INACTIVE, RELU_PHASE_ACTIVE >>
    ELSE IF direction = RELU_PHASE_ACTIVE
    THEN << RELU_PHASE_ACTIVE, RELU_PHASE_INACTIVE >>
    ELSE << RELU_PHASE_INACTIVE, RELU_PHASE_ACTIVE >>

getAllCases ==
    IF direction = RELU_PHASE_INACTIVE
    THEN << RELU_PHASE_INACTIVE, RELU_PHASE_ACTIVE >>
    ELSE IF direction = RELU_PHASE_ACTIVE
    THEN << RELU_PHASE_ACTIVE, RELU_PHASE_INACTIVE >>
    ELSE IF existsAssignment(f)
    THEN IF isPositive(getAssignment(f))
         THEN << RELU_PHASE_ACTIVE, RELU_PHASE_INACTIVE >>
         ELSE << RELU_PHASE_INACTIVE, RELU_PHASE_ACTIVE >>
    ELSE << RELU_PHASE_INACTIVE, RELU_PHASE_ACTIVE >>

\* The split getCaseSplit( phase ) returns, or the MarabouError it throws.
getCaseSplit(phase) ==
    IF phase = RELU_PHASE_INACTIVE
    THEN [error |-> "none", split |-> getInactiveSplit]
    ELSE IF phase = RELU_PHASE_ACTIVE
    THEN [error |-> "none", split |-> getActiveSplit]
    ELSE [error |-> "REQUESTED_NONEXISTENT_CASE_SPLIT",
          split |-> PiecewiseLinearCaseSplit(<< >>, << >>)]

\* The assertion that the phase is fixed is compiled out of a release build.
getImpliedCaseSplit ==
    IF phaseStatus = RELU_PHASE_ACTIVE THEN getActiveSplit
    ELSE getInactiveSplit

\* The phase and the cached bounds of a freshly built standalone constraint,
\* and of one whose phase a first notification has fixed:
\* notifyLowerBound( b, 0 ) makes it Active, notifyUpperBound( f, 0 )
\* Inactive.
PhaseSnapshots ==
    { [phase |-> PHASE_NOT_FIXED, lower |-> EmptyMap, upper |-> EmptyMap],
      [phase |-> RELU_PHASE_ACTIVE, lower |-> MapSet(EmptyMap, 0, 0),
       upper |-> EmptyMap],
      [phase |-> RELU_PHASE_INACTIVE, lower |-> EmptyMap,
       upper |-> MapSet(EmptyMap, 1, 0)] }

\* The states in which the queries of a standalone constraint are asked:
\* the phase as notifications left it, the hint as the branching heuristic
\* left it.
InitQueries ==
    /\ b = 0
    /\ f = 1
    /\ auxVarInUse \in BOOLEAN
    /\ aux \in IF auxVarInUse THEN {2} ELSE VarIds
    /\ \E snapshot \in PhaseSnapshots :
           /\ phaseStatus = snapshot.phase
           /\ lowerBounds = snapshot.lower
           /\ upperBounds = snapshot.upper
    /\ boundManager = FALSE
    /\ constraintActive = TRUE
    /\ produceProofs = FALSE
    /\ tableauAuxVars = << >>
    /\ tighteningRow = NULL
    /\ assignment = EmptyMap
    /\ bmLower = [v \in VarIds |-> 0 - Inf]
    /\ bmUpper = [v \in VarIds |-> Inf]
    /\ issued = << >>
    /\ outcome = "ok"
    /\ lastCall = NoCall
    /\ returned = "none"
    /\ nCalls = 0
    /\ direction \in {PHASE_NOT_FIXED, RELU_PHASE_ACTIVE, RELU_PHASE_INACTIVE}
    /\ tableau = NoTableau
    /\ query = InitialQuery(auxVarInUse, aux)
    /\ other = NoInstance
    /\ score = Whole(0 - Inf)
    /\ haveEliminatedVariables = FALSE

\* What a query leaves alone: everything but its answer.
QueryFrame ==
    UNCHANGED << b, f, aux, auxVarInUse, phaseStatus, lowerBounds,
                 upperBounds, constraintActive, tighteningRow,
                 tableauAuxVars, assignment, boundManager, produceProofs,
                 bmLower, bmUpper, issued, outcome, nCalls, direction,
                 tableau, query, other,
                 score, haveEliminatedVariables >>

GetCaseSplits ==
    /\ returned' = getCaseSplits
    /\ lastCall' = [op |-> "getCaseSplits"]
    /\ QueryFrame

GetAllCases ==
    /\ returned' = getAllCases
    /\ lastCall' = [op |-> "getAllCases"]
    /\ QueryFrame

GetCaseSplit(phase) ==
    /\ returned' = getCaseSplit(phase)
    /\ lastCall' = [op |-> "getCaseSplit", phase |-> phase]
    /\ QueryFrame

GetImpliedCaseSplit ==
    /\ returned' = getImpliedCaseSplit
    /\ lastCall' = [op |-> "getImpliedCaseSplit"]
    /\ QueryFrame

NextSplits ==
    \/ \E variable \in VarIds, value \in Values :
           SetAssignment(variable, value)
    \/ GetCaseSplits
    \/ GetAllCases
    \/ \E phase \in {PHASE_NOT_FIXED, RELU_PHASE_ACTIVE, RELU_PHASE_INACTIVE} :
           GetCaseSplit(phase)
    \/ GetImpliedCaseSplit

SpecSplits == InitQueries /\ [][NextSplits]_vars

----------------------------------------------------------------------------
(* Entailed tightenings. *)

\* The bound the constraint reads: the bound manager's when one is
\* attached, the cached one otherwise.
getLowerBound(variable) ==
    IF boundManager THEN bmLower[variable] ELSE lowerBounds[variable]
getUpperBound(variable) ==
    IF boundManager THEN bmUpper[variable] ELSE upperBounds[variable]

\* The three lists of getEntailedTightenings, by the case the bounds select.
entailedActive(bLowerBound, fLowerBound, bUpperBound, fUpperBound) ==
    << BoundTightening(b, fLowerBound, LB),
       BoundTightening(f, bLowerBound, LB),
       BoundTightening(b, fUpperBound, UB),
       BoundTightening(f, bUpperBound, UB) >>
    \o (IF auxVarInUse
        THEN << BoundTightening(aux, 0, LB), BoundTightening(aux, 0, UB) >>
        ELSE << >>)
    \o << BoundTightening(b, 0, LB), BoundTightening(f, 0, LB) >>

entailedInactive(bLowerBound, bUpperBound, auxLowerBound, auxUpperBound) ==
    << BoundTightening(f, 0, LB),
       BoundTightening(f, 0, UB),
       BoundTightening(b, 0, UB) >>
    \o (IF auxVarInUse
        THEN << BoundTightening(aux, 0 - bLowerBound, UB),
                BoundTightening(aux, 0 - bUpperBound, LB),
                BoundTightening(b, 0 - auxLowerBound, UB),
                BoundTightening(b, 0 - auxUpperBound, LB),
                BoundTightening(aux, 0, LB) >>
        ELSE << >>)

entailedUnknown(bLowerBound, bUpperBound, fUpperBound, auxUpperBound) ==
    << BoundTightening(b, fUpperBound, UB),
       BoundTightening(f, bUpperBound, UB) >>
    \o (IF auxVarInUse
        THEN << BoundTightening(b, 0 - auxUpperBound, LB),
                BoundTightening(aux, 0 - bLowerBound, UB) >>
        ELSE << >>)
    \o << BoundTightening(f, 0, LB) >>
    \o (IF auxVarInUse THEN << BoundTightening(aux, 0, LB) >> ELSE << >>)

\* A faulty variant: a lower bound of f that is merely not negative counts
\* as the active case.
MutGetEntailedTightenings ==
    LET bLowerBound == getLowerBound(b)
        fLowerBound == getLowerBound(f)
        bUpperBound == getUpperBound(b)
        fUpperBound == getUpperBound(f)
        auxLowerBound == IF auxVarInUse THEN getLowerBound(aux) ELSE 0
        auxUpperBound == IF auxVarInUse THEN getUpperBound(aux) ELSE 0
    IN  IF \/ ~isNegative(bLowerBound)
           \/ ~isNegative(fLowerBound)
           \/ (auxVarInUse /\ isZero(auxUpperBound))
        THEN entailedActive(bLowerBound, fLowerBound, bUpperBound, fUpperBound)
        ELSE IF \/ isNegative(bUpperBound)
                \/ isZero(fUpperBound)
                \/ (auxVarInUse /\ isPositive(auxLowerBound))
        THEN entailedInactive(bLowerBound, bUpperBound, auxLowerBound,
                              auxUpperBound)
        ELSE entailedUnknown(bLowerBound, bUpperBound, fUpperBound,
                             auxUpperBound)

\* The list getEntailedTightenings appends to an empty list.
getEntailedTightenings ==
    LET bLowerBound == getLowerBound(b)
        fLowerBound == getLowerBound(f)
        bUpperBound == getUpperBound(b)
        fUpperBound == getUpperBound(f)
        auxLowerBound == IF auxVarInUse THEN getLowerBound(aux) ELSE 0
        auxUpperBound == IF auxVarInUse THEN getUpperBound(aux) ELSE 0
    IN  IF \/ ~isNegative(bLowerBound)
           \/ isPositive(fLowerBound)
           \/ (auxVarInUse /\ isZero(auxUpperBound))
        THEN entailedActive(bLowerBound, fLowerBound, bUpperBound, fUpperBound)
        ELSE IF \/ isNegative(bUpperBound)
                \/ isZero(fUpperBound)
                \/ (auxVarInUse /\ isPositive(auxLowerBound))
        THEN entailedInactive(bLowerBound, bUpperBound, auxLowerBound,
                              auxUpperBound)
        ELSE entailedUnknown(bLowerBound, bUpperBound, fUpperBound,
                             auxUpperBound)

\* A standalone constraint that has been notified, in this order, of a
\* lower bound of b, of f and of aux (when in use) and of an upper bound of
\* b, of f and of aux: every combination of cached bounds, each with the
\* phase these six notifications leave.
InitEntailed ==
    /\ b = 0
    /\ f = 1
    /\ auxVarInUse \in BOOLEAN
    /\ aux \in IF auxVarInUse THEN {2} ELSE VarIds
    /\ \E bl \in Values, fl \in Values, bu \in Values, fu \in Values :
       \E al \in IF auxVarInUse THEN Values ELSE {0},
          au \in IF auxVarInUse THEN Values ELSE {0} :
           LET lbs == MapSet(MapSet(EmptyMap, b, bl), f, fl)
               ubs == MapSet(MapSet(EmptyMap, b, bu), f, fu)
               p1 == checkIfLowerBoundUpdateFixesPhase(PHASE_NOT_FIXED, b, bl)
               p2 == checkIfLowerBoundUpdateFixesPhase(p1, f, fl)
               p3 == IF auxVarInUse
                     THEN checkIfLowerBoundUpdateFixesPhase(p2, aux, al)
                     ELSE p2
               p4 == checkIfUpperBoundUpdateFixesPhase(p3, b, bu)
               p5 == checkIfUpperBoundUpdateFixesPhase(p4, f, fu)
               p6 == IF auxVarInUse
                     THEN checkIfUpperBoundUpdateFixesPhase(p5, aux, au)
                     ELSE p5
           IN  /\ lowerBounds = IF auxVarInUse THEN MapSet(lbs, aux, al)
                                ELSE lbs
               /\ upperBounds = IF auxVarInUse THEN MapSet(ubs, aux, au)
                                ELSE ubs
               /\ phaseStatus = p6
    /\ boundManager = FALSE
    /\ constraintActive = TRUE
    /\ produceProofs = FALSE
    /\ tableauAuxVars = << >>
    /\ tighteningRow = NULL
    /\ assignment = EmptyMap
    /\ bmLower = [v \in VarIds |-> 0 - Inf]
    /\ bmUpper = [v \in VarIds |-> Inf]
    /\ issued = << >>
    /\ outcome = "ok"
    /\ lastCall = NoCall
    /\ returned = "none"
    /\ nCalls = 0
    /\ direction = PHASE_NOT_FIXED
    /\ tableau = NoTableau
    /\ query = InitialQuery(auxVarInUse, aux)
    /\ other = NoInstance
    /\ score = Whole(0 - Inf)
    /\ haveEliminatedVariables = FALSE

GetEntailedTightenings ==
    /\ returned' = getEntailedTightenings
    /\ lastCall' = [op |-> "getEntailedTightenings"]
    /\ QueryFrame

NextEntailed == GetEntailedTightenings

SpecEntailed == InitEntailed /\ [][NextEntailed]_vars

----------------------------------------------------------------------------
(* Fixes. *)

\* PiecewiseLinearConstraint::Fix( variable, value ); the value is a double.
Fix(variable, value) == [variable |-> variable, value |-> value]

\* A faulty variant: with f positive and b not, f is sent to b's value.
MutGetPossibleFixesToB ==
    LET bValue == Whole(getAssignment(b))
        fValue == Whole(getAssignment(f))
    IN  IF isPositive(fValue.num)
        THEN << Fix(b, fValue), Fix(f, bValue) >>
        ELSE << Fix(f, bValue), Fix(b, Whole(0)) >>

\* A faulty variant: the hint is not consulted.
MutGetPossibleFixes ==
    LET bValue == Whole(getAssignment(b))
        fValue == Whole(getAssignment(f))
    IN  IF isPositive(fValue.num)
        THEN IF isPositive(bValue.num)
             THEN << Fix(b, fValue), Fix(f, bValue) >>
             ELSE << Fix(b, fValue), Fix(f, Whole(0)) >>
        ELSE << Fix(b, Whole(0)), Fix(f, bValue) >>

\* The list getPossibleFixes() returns; its assertions are compiled out of
\* a release build.
getPossibleFixes ==
    LET bValue == Whole(getAssignment(b))
        fValue == Whole(getAssignment(f))
    IN  IF isPositive(fValue.num)
        THEN IF isPositive(bValue.num)
             THEN << Fix(b, fValue), Fix(f, bValue) >>
             ELSE IF direction = RELU_PHASE_INACTIVE
                  THEN << Fix(f, Whole(0)), Fix(b, fValue) >>
                  ELSE << Fix(b, fValue), Fix(f, Whole(0)) >>
        ELSE IF direction = RELU_PHASE_ACTIVE
             THEN << Fix(f, bValue), Fix(b, Whole(0)) >>
             ELSE << Fix(b, Whole(0)), Fix(f, bValue) >>

\* The active repair of getSmartFixes: make f = b.
activeFix(bValue, fValue) ==
    IF ~tableau.bIsBasic
    THEN IF tableau.bDeltaToFDelta # Whole(1)
         THEN LET activeFixDelta ==
                      Over(Minus(bValue, fValue),
                           Minus(tableau.bDeltaToFDelta, Whole(1)))
              IN  << Fix(b, Plus(bValue, activeFixDelta)) >>
         ELSE << >>
    ELSE IF tableau.fDeltaToBDelta # Whole(1)
         THEN LET activeFixDelta ==
                      Over(Minus(fValue, bValue),
                           Minus(tableau.fDeltaToBDelta, Whole(1)))
              IN  << Fix(f, Plus(fValue, activeFixDelta)) >>
         ELSE << >>

\* The inactive repair of getSmartFixes: make f = 0 with b not positive.
inactiveFix(bValue, fValue) ==
    IF ~tableau.fIsBasic
    THEN LET newBValue ==
                 Plus(bValue, Times(tableau.fDeltaToBDelta, Negated(fValue)))
         IN  IF newBValue.num <= 0 THEN << Fix(f, Whole(0)) >> ELSE << >>
    ELSE LET nonactiveFixDelta ==
                 Over(fValue, Negated(tableau.bDeltaToFDelta))
             nonactiveFix == Plus(bValue, nonactiveFixDelta)
         IN  IF nonactiveFix.num <= 0 THEN << Fix(b, nonactiveFix) >>
             ELSE << >>

\* A faulty variant: without a dependency the possible fixes come reversed.
MutGetSmartFixes ==
    IF ~tableau.linearlyDependent
    THEN << getPossibleFixes[2], getPossibleFixes[1] >>
    ELSE LET bValue == Whole(getAssignment(b))
             fValue == Whole(getAssignment(f))
         IN  activeFix(bValue, fValue) \o inactiveFix(bValue, fValue)

\* The list getSmartFixes( tableau ) returns.
getSmartFixes ==
    IF ~tableau.linearlyDependent
    THEN getPossibleFixes
    ELSE LET bValue == Whole(getAssignment(b))
             fValue == Whole(getAssignment(f))
         IN  activeFix(bValue, fValue) \o inactiveFix(bValue, fValue)

Coefficients == ((0 - MaxCoefficient)..MaxCoefficient) \ {0}

\* What the tableau can answer about b and f: no dependency, or exactly one
\* of the two basic and the basic one moving by coefficient times the
\* change of the other.
Tableaus ==
    { [NoTableau EXCEPT !.bIsBasic = bBasic, !.fIsBasic = fBasic] :
          bBasic \in BOOLEAN, fBasic \in BOOLEAN }
    \cup
    { [linearlyDependent |-> TRUE, bIsBasic |-> FALSE, fIsBasic |-> TRUE,
       bDeltaToFDelta |-> Whole(coefficient),
       fDeltaToBDelta |-> Over(Whole(1), Whole(coefficient))] :
          coefficient \in Coefficients }
    \cup
    { [linearlyDependent |-> TRUE, bIsBasic |-> TRUE, fIsBasic |-> FALSE,
       bDeltaToFDelta |-> Over(Whole(1), Whole(coefficient)),
       fDeltaToBDelta |-> Whole(coefficient)] :
          coefficient \in Coefficients }

\* The tableau pivots.
SetTableau(newTableau) ==
    /\ tableau' = newTableau
    /\ lastCall' = [op |-> "pivot"]
    /\ returned' = "none"
    /\ UNCHANGED << b, f, aux, auxVarInUse, phaseStatus, lowerBounds,
                    upperBounds, constraintActive, tighteningRow,
                    tableauAuxVars, assignment, boundManager, produceProofs,
                    bmLower, bmUpper, issued, outcome, nCalls, direction,
                    query, other,
                    score, haveEliminatedVariables >>

GetPossibleFixes ==
    /\ existsAssignment(b) /\ existsAssignment(f)
    /\ returned' = getPossibleFixes
    /\ lastCall' = [op |-> "getPossibleFixes"]
    /\ QueryFrame

GetSmartFixes ==
    /\ existsAssignment(b) /\ existsAssignment(f)
    /\ returned' = getSmartFixes
    /\ lastCall' = [op |-> "getSmartFixes"]
    /\ QueryFrame

NextFixes ==
    \/ \E variable \in {b, f}, value \in Values :
           SetAssignment(variable, value)
    \/ \E newTableau \in Tableaus : SetTableau(newTableau)
    \/ GetPossibleFixes
    \/ GetSmartFixes

SpecFixes == InitQueries /\ [][NextFixes]_vars

----------------------------------------------------------------------------
(* Serialization.  A text is a sequence of characters. *)

DigitChars == << "0", "1", "2", "3", "4", "5", "6", "7", "8", "9" >>

\* printf's %u: the decimal digits of an unsigned, most significant first.
RECURSIVE formatUnsigned(_)
formatUnsigned(n) ==
    IF n < Len(DigitChars) THEN << DigitChars[n + 1] >>
    ELSE formatUnsigned(n \div Len(DigitChars))
         \o << DigitChars[(n % Len(DigitChars)) + 1] >>

\* A faulty variant: b is written before f.
MutSerializeToString ==
    IF auxVarInUse
    THEN << "r", "e", "l", "u", "," >> \o formatUnsigned(b) \o << "," >>
         \o formatUnsigned(f) \o << "," >> \o formatUnsigned(aux)
    ELSE << "r", "e", "l", "u", "," >> \o formatUnsigned(b) \o << "," >>
         \o formatUnsigned(f)

\* Stringf( "relu,%u,%u,%u", _f, _b, _aux ) or Stringf( "relu,%u,%u", _f, _b ).
serializeToString ==
    IF auxVarInUse
    THEN << "r", "e", "l", "u", "," >> \o formatUnsigned(f) \o << "," >>
         \o formatUnsigned(b) \o << "," >> \o formatUnsigned(aux)
    ELSE << "r", "e", "l", "u", "," >> \o formatUnsigned(f) \o << "," >>
         \o formatUnsigned(b)

\* String::substring( start, length ); start counts from 0.
substring(text, start, length) ==
    SubSeq(text, start + 1,
           IF start + length < Len(text) THEN start + length ELSE Len(text))

\* String::tokenize( delimiter ): the non-empty pieces between delimiters.
RECURSIVE tokenizeFrom(_, _, _, _)
tokenizeFrom(text, delimiter, i, token) ==
    IF i > Len(text)
    THEN IF token = << >> THEN << >> ELSE << token >>
    ELSE IF text[i] = delimiter
    THEN (IF token = << >> THEN << >> ELSE << token >>)
         \o tokenizeFrom(text, delimiter, i + 1, << >>)
    ELSE tokenizeFrom(text, delimiter, i + 1, Append(token, text[i]))

tokenize(text, delimiter) == tokenizeFrom(text, delimiter, 1, << >>)

\* atoi: the number the leading decimal digits spell, 0 without any.
RECURSIVE atoiFrom(_, _, _)
atoiFrom(text, i, value) ==
    IF i > Len(text) \/ ~(\E d \in DOMAIN DigitChars : DigitChars[d] = text[i])
    THEN value
    ELSE atoiFrom(text, i + 1,
                  value * Len(DigitChars)
                  + (CHOOSE d \in DOMAIN DigitChars :
                         DigitChars[d] = text[i]) - 1)

atoi(text) == atoiFrom(text, 1, 0)

\* A ReluConstraint instance other than the one the calls are made on:
\* its members, whether its caches of bounds are storage of its own, and
\* what it is to the instance the calls are made on.
\* rest holds the remaining members: _constraintActive, _tighteningRow,
\* _tableauAuxVars, _assignment and _score.
Instance(bVar, fVar, auxVar, inUse, hint, phase, lower, upper, gone, own, role, rest) ==
    [b |-> bVar, f |-> fVar, aux |-> auxVar, auxVarInUse |-> inUse,
     direction |-> hint, phaseStatus |-> phase,
     lowerBounds |-> lower, upperBounds |-> upper,
     haveEliminatedVariables |-> gone,
     constraintActive |-> rest.constraintActive,
     tighteningRow |-> rest.tighteningRow,
     tableauAuxVars |-> rest.tableauAuxVars,
     assignment |-> rest.assignment,
     score |-> rest.score,
     ownBounds |-> own, role |-> role]

\* Those members as a constructor leaves them.
ConstructedMembers ==
    [constraintActive |-> TRUE, tighteningRow |-> NULL,
     tableauAuxVars |-> << >>, assignment |-> EmptyMap,
     score |-> Whole(0 - Inf)]

\* Those members of the instance the calls are made on.
OwnMembers ==
    [constraintActive |-> constraintActive, tighteningRow |-> tighteningRow,
     tableauAuxVars |-> tableauAuxVars, assignment |-> assignment,
     score |-> score]

\* ReluConstraint( serializedRelu ).  _direction is left uninitialized, and
\* so is _aux when the text has two values: both are whatever the memory
\* held.
ReluConstraintFromString(serializedRelu, heldAux, heldDirection) ==
    LET serializedValues ==
            substring(serializedRelu, Len(<< "r", "e", "l", "u", "," >>),
                      Len(serializedRelu) - Len(<< "r", "e", "l", "u", "," >>))
        values == tokenize(serializedValues, ",")
    IN  IF Len(values) = Len(<< f, b >>)
        THEN Instance(atoi(values[2]), atoi(values[1]), heldAux, FALSE,
                      heldDirection, PHASE_NOT_FIXED, EmptyMap, EmptyMap,
                      FALSE, TRUE, "built from text", ConstructedMembers)
        ELSE Instance(atoi(values[2]), atoi(values[1]), atoi(values[3]), TRUE,
                      heldDirection, PHASE_NOT_FIXED, EmptyMap, EmptyMap,
                      FALSE, TRUE, "built from text", ConstructedMembers)

Ids == 0..MaxId

\* Constraints over any variable indices, with or without the slack.
InitSerial ==
    /\ b \in Ids
    /\ f \in Ids
    /\ aux \in Ids
    /\ auxVarInUse \in BOOLEAN
    /\ phaseStatus = PHASE_NOT_FIXED
    /\ lowerBounds = EmptyMap
    /\ upperBounds = EmptyMap
    /\ boundManager = FALSE
    /\ constraintActive = TRUE
    /\ produceProofs = FALSE
    /\ tableauAuxVars = << >>
    /\ tighteningRow = NULL
    /\ assignment = EmptyMap
    /\ bmLower = [v \in VarIds |-> 0 - Inf]
    /\ bmUpper = [v \in VarIds |-> Inf]
    /\ issued = << >>
    /\ outcome = "ok"
    /\ lastCall = NoCall
    /\ returned = "none"
    /\ nCalls = 0
    /\ direction = PHASE_NOT_FIXED
    /\ tableau = NoTableau
    /\ query = InitialQuery(FALSE, aux)
    /\ other = NoInstance
    /\ score = Whole(0 - Inf)
    /\ haveEliminatedVariables = FALSE

SerializeToString ==
    /\ returned' = serializeToString
    /\ lastCall' = [op |-> "serializeToString"]
    /\ QueryFrame

\* A constraint is built from the text serializeToString returned.
ConstructFromString ==
    /\ lastCall.op = "serializeToString"
    /\ \E heldAux \in Ids,
          heldDirection \in {PHASE_NOT_FIXED, RELU_PHASE_ACTIVE,
                             RELU_PHASE_INACTIVE} :
           other' = << ReluConstraintFromString(returned, heldAux,
                                                heldDirection) >>
    /\ lastCall' = [op |-> "ReluConstraint", serializedRelu |-> returned]
    /\ UNCHANGED << b, f, aux, auxVarInUse, phaseStatus, lowerBounds,
                    upperBounds, constraintActive, tighteningRow,
                    tableauAuxVars, assignment, boundManager, produceProofs,
                    bmLower, bmUpper, issued, outcome, nCalls, direction,
                    tableau, query, returned,
                    score, haveEliminatedVariables >>

NextSerial ==
    \/ SerializeToString
    \/ ConstructFromString

SpecSerial == InitSerial /\ [][NextSerial]_vars

----------------------------------------------------------------------------
(* The slack variable. *)

\* A faulty variant: the slack is allocated on every call.
MutTransformToUseAuxVariables(inputQuery) ==
    LET newAux == inputQuery.numberOfVariables
        bLowerBounds == IF existsLowerBound(b) THEN getLowerBound(b)
                        ELSE 0 - Inf
        auxUpperBound == IF bLowerBounds > 0 THEN 0 ELSE 0 - bLowerBounds
    IN  [aux |-> newAux, auxVarInUse |-> TRUE,
         query |->
             [numberOfVariables |-> newAux + 1,
              equations |-> Append(inputQuery.equations,
                                   AuxEquation(f, b, newAux)),
              lowerBounds |-> MapSet(inputQuery.lowerBounds, newAux, 0),
              upperBounds |-> MapSet(inputQuery.upperBounds, newAux,
                                     auxUpperBound)]]

\* _aux, _auxVarInUse and the query after
\* transformToUseAuxVariables( inputQuery ).
transformToUseAuxVariables(inputQuery) ==
    IF auxVarInUse
    THEN [aux |-> aux, auxVarInUse |-> auxVarInUse, query |-> inputQuery]
    ELSE LET newAux == inputQuery.numberOfVariables
             bLowerBounds == IF existsLowerBound(b) THEN getLowerBound(b)
                             ELSE 0 - Inf
             auxUpperBound == IF bLowerBounds > 0 THEN 0
                              ELSE 0 - bLowerBounds
         IN  [aux |-> newAux, auxVarInUse |-> TRUE,
              query |->
                  [numberOfVariables |-> newAux + 1,
                   equations |-> Append(inputQuery.equations,
                                        AuxEquation(f, b, newAux)),
                   lowerBounds |-> MapSet(inputQuery.lowerBounds, newAux, 0),
                   upperBounds |-> MapSet(inputQuery.upperBounds, newAux,
                                          auxUpperBound)]]

\* A constraint without a bound manager.
InitStandalone == Init /\ ~boundManager

TransformToUseAuxVariables ==
    /\ LET r == transformToUseAuxVariables(query)
       IN  /\ aux' = r.aux
           /\ auxVarInUse' = r.auxVarInUse
           /\ query' = r.query
    /\ lastCall' = [op |-> "transformToUseAuxVariables",
                    auxVarInUse |-> auxVarInUse]
    /\ UNCHANGED << b, f, phaseStatus, lowerBounds, upperBounds,
                    constraintActive, tighteningRow, tableauAuxVars,
                    assignment, boundManager, produceProofs, bmLower,
                    bmUpper, issued, outcome, returned, nCalls, direction,
                    tableau, other,
                    score, haveEliminatedVariables >>

NextAux ==
    \/ \E variable \in VarIds, newBound \in Values :
           NotifyLowerBound(variable, newBound)
    \/ \E variable \in VarIds, newBound \in Values :
           NotifyUpperBound(variable, newBound)
    \/ TransformToUseAuxVariables

SpecAux == InitStandalone /\ [][NextAux]_vars

----------------------------------------------------------------------------
(* Duplication. *)

\* A faulty variant: the clone's caches of bounds are the original's storage.
MutDuplicateConstraint ==
    Instance(b, f, aux, auxVarInUse, direction, phaseStatus, lowerBounds,
             upperBounds, haveEliminatedVariables, FALSE, "clone", OwnMembers)

\* The clone: new ReluConstraint( _b, _f ) assigned *this, member by
\* member; the maps of cached bounds are members held by value, so the
\* clone's are copies.
duplicateConstraint ==
    Instance(b, f, aux, auxVarInUse, direction, phaseStatus, lowerBounds,
             upperBounds, haveEliminatedVariables, TRUE, "clone", OwnMembers)

DuplicateConstraint ==
    /\ other = NoInstance
    /\ other' = << duplicateConstraint >>
    /\ lastCall' = [op |-> "duplicateConstraint"]
    /\ UNCHANGED << b, f, aux, auxVarInUse, phaseStatus, lowerBounds,
                    upperBounds, constraintActive, tighteningRow,
                    tableauAuxVars, assignment, boundManager, produceProofs,
                    bmLower, bmUpper, issued, outcome, returned, nCalls,
                    direction, tableau, query,
                    score, haveEliminatedVariables >>

\* The search turns to the other instance: from now on the calls are made
\* on it.
TurnToOtherInstance ==
    /\ other # NoInstance
    /\ b' = other[1].b
    /\ f' = other[1].f
    /\ aux' = other[1].aux
    /\ auxVarInUse' = other[1].auxVarInUse
    /\ direction' = other[1].direction
    /\ phaseStatus' = other[1].phaseStatus
    /\ lowerBounds' = other[1].lowerBounds
    /\ upperBounds' = other[1].upperBounds
    /\ haveEliminatedVariables' = other[1].haveEliminatedVariables
    /\ constraintActive' = other[1].constraintActive
    /\ tighteningRow' = other[1].tighteningRow
    /\ tableauAuxVars' = other[1].tableauAuxVars
    /\ assignment' = other[1].assignment
    /\ score' = other[1].score
    /\ other' = << Instance(b, f, aux, auxVarInUse, direction, phaseStatus,
                            lowerBounds, upperBounds,
                            haveEliminatedVariables, other[1].ownBounds,
                            IF other[1].role = "clone" THEN "original"
                            ELSE "clone", OwnMembers) >>
    /\ lastCall' = [op |-> "turn"]
    /\ UNCHANGED << boundManager, produceProofs, bmLower, bmUpper, issued,
                    outcome, returned, nCalls, tableau, query >>

NextClone ==
    \/ \E variable \in VarIds, newBound \in Values :
           NotifyLowerBound(variable, newBound)
    \/ \E variable \in VarIds, newBound \in Values :
           NotifyUpperBound(variable, newBound)
    \/ DuplicateConstraint
    \/ TurnToOtherInstance

SpecClone == InitStandalone /\ [][NextClone]_vars

----------------------------------------------------------------------------
(* Registration of the tableau's slack variable. *)

\* _tableauAuxVars after addTableauAuxVar( tableauAuxVar, constraintAuxVar ).
addTableauAuxVar(tableauAuxVar, constraintAuxVar) ==
    IF constraintAuxVar = aux
    THEN Append(tableauAuxVars, tableauAuxVar)
    ELSE tableauAuxVars

InitRow == Init /\ boundManager /\ tableauAuxVars = << >>

\* The engine tells the constraint which slack the tableau gave to the
\* equation of one of the aux variables; the call requires that none is
\* registered yet.
AddTableauAuxVar(constraintAuxVar) ==
    /\ tableauAuxVars = << >>
    /\ outcome # "crash"
    /\ tableauAuxVars' = addTableauAuxVar(TableauAuxId, constraintAuxVar)
    /\ lastCall' = [op |-> "addTableauAuxVar",
                    constraintAuxVar |-> constraintAuxVar]
    /\ UNCHANGED << b, f, aux, auxVarInUse, phaseStatus, lowerBounds,
                    upperBounds, constraintActive, tighteningRow, assignment,
                    boundManager, produceProofs, bmLower, bmUpper, issued,
                    outcome, returned, nCalls, direction, tableau, query,
                    other,
                    score, haveEliminatedVariables >>

NextRow ==
    \/ \E variable \in VarIds, newBound \in Values :
           NotifyLowerBound(variable, newBound)
    \/ \E variable \in VarIds, newBound \in Values :
           NotifyUpperBound(variable, newBound)
    \/ \E constraintAuxVar \in VarIds : AddTableauAuxVar(constraintAuxVar)

SpecRow == InitRow /\ [][NextRow]_vars

----------------------------------------------------------------------------
(* Repairing an assignment with one of the proposed fixes. *)

\* The caller of getPossibleFixes applies one fix of the list it was given:
\* the named variable takes the fix's value, nothing else changes.
ApplyFix(i) ==
    /\ lastCall.op = "getPossibleFixes"
    /\ i \in 1..Len(returned)
    /\ returned[i].value.den = 1
    /\ assignment' = MapSet(assignment, returned[i].variable,
                            returned[i].value.num)
    /\ lastCall' = [op |-> "applyFix", fix |-> returned[i],
                    violated |-> satisfied = "false",
                    fValue |-> getAssignment(f)]
    /\ UNCHANGED << b, f, aux, auxVarInUse, phaseStatus, lowerBounds,
                    upperBounds, constraintActive, tighteningRow,
                    tableauAuxVars, boundManager, produceProofs, bmLower,
                    bmUpper, issued, outcome, returned, nCalls, direction,
                    tableau, query, other,
                    score, haveEliminatedVariables >>

NextRepair ==
    \/ \E variable \in {b, f}, value \in Values :
           SetAssignment(variable, value)
    \/ GetPossibleFixes
    \/ \E i \in 1..2 : ApplyFix(i)

SpecRepair == InitQueries /\ [][NextRepair]_vars

----------------------------------------------------------------------------
(* The cost term of the constraint.  A linear expression is the map of its *)
(* addends, from variables to coefficients.                                *)

\* A faulty variant: the coefficients are written instead of added to.
MutGetCostFunctionComponent(cost, phase) ==
    IF ~isActive \/ phaseFixed
    THEN cost
    ELSE IF phase = RELU_PHASE_INACTIVE
    THEN MapSet(cost, f, 1)
    ELSE MapSet(MapSet(cost, f, 1), b, 0 - 1)

\* cost._addends after getCostFunctionComponent( cost, phase ); its
\* assertions are compiled out of a release build.
getCostFunctionComponent(cost, phase) ==
    IF ~isActive \/ phaseFixed
    THEN cost
    ELSE IF phase = RELU_PHASE_INACTIVE
    THEN LET withF == IF f \notin DOMAIN cost THEN MapSet(cost, f, 0)
                      ELSE cost
         IN  MapSet(withF, f, withF[f] + 1)
    ELSE LET withF == IF f \notin DOMAIN cost THEN MapSet(cost, f, 0)
                      ELSE cost
             withB == IF b \notin DOMAIN withF THEN MapSet(withF, b, 0)
                      ELSE withF
             plusF == MapSet(withB, f, withB[f] + 1)
         IN  MapSet(plusF, b, plusF[b] - 1)

\* The linear expressions a cost term is added to.
Costs ==
    UNION { [vs -> (0 - MaxCoefficient)..MaxCoefficient] : vs \in SUBSET VarIds }

\* The states in which the cost term is asked for: as for the other
\* queries, and the constraint active in the search or not.
InitCost ==
    /\ b = 0
    /\ f = 1
    /\ auxVarInUse \in BOOLEAN
    /\ aux \in IF auxVarInUse THEN {2} ELSE VarIds
    /\ \E snapshot \in PhaseSnapshots :
           /\ phaseStatus = snapshot.phase
           /\ lowerBounds = snapshot.lower
           /\ upperBounds = snapshot.upper
    /\ boundManager = FALSE
    /\ constraintActive \in BOOLEAN
    /\ produceProofs = FALSE
    /\ tableauAuxVars = << >>
    /\ tighteningRow = NULL
    /\ assignment = EmptyMap
    /\ bmLower = [v \in VarIds |-> 0 - Inf]
    /\ bmUpper = [v \in VarIds |-> Inf]
    /\ issued = << >>
    /\ outcome = "ok"
    /\ lastCall = NoCall
    \* The caller's expression, which the calls add to.
    /\ returned \in Costs
    /\ nCalls = 0
    /\ direction = PHASE_NOT_FIXED
    /\ tableau = NoTableau
    /\ query = InitialQuery(auxVarInUse, aux)
    /\ other = NoInstance
    /\ score = Whole(0 - Inf)
    /\ haveEliminatedVariables = FALSE

\* The caller adds the constraint's term for a phase to its expression.
GetCostFunctionComponent(phase) ==
    /\ nCalls < MaxCalls
    /\ returned' = getCostFunctionComponent(returned, phase)
    /\ lastCall' = [op |-> "getCostFunctionComponent", cost |-> returned,
                    phase |-> phase]
    /\ nCalls' = nCalls + 1
    /\ UNCHANGED << b, f, aux, auxVarInUse, phaseStatus, lowerBounds,
                    upperBounds, constraintActive, tighteningRow,
                    tableauAuxVars, assignment, boundManager, produceProofs,
                    bmLower, bmUpper, issued, outcome, direction, tableau,
                    query, other,
                    score, haveEliminatedVariables >>

NextCost ==
    \E phase \in {RELU_PHASE_ACTIVE, RELU_PHASE_INACTIVE} :
        GetCostFunctionComponent(phase)

SpecCost == InitCost /\ [][NextCost]_vars

----------------------------------------------------------------------------
(* Polarity, the direction hint and the polarity score. *)

\* A faulty variant: the two tests on the bounds are made in the other order.
MutComputePolarity ==
    LET currentLb == getLowerBound(b)
        currentUb == getUpperBound(b)
    IN  IF currentUb <= 0 THEN Whole(0 - 1)
        ELSE IF currentLb >= 0 THEN Whole(1)
        ELSE LET width == currentUb - currentLb
                 sum == currentUb + currentLb
             IN  Quotient(sum, width)

\* The double computePolarity() returns.
computePolarity ==
    LET currentLb == getLowerBound(b)
        currentUb == getUpperBound(b)
    IN  IF currentLb >= 0 THEN Whole(1)
        ELSE IF currentUb <= 0 THEN Whole(0 - 1)
        ELSE LET width == currentUb - currentLb
                 sum == currentUb + currentLb
             IN  Quotient(sum, width)

\* _direction after updateDirection().
updateDirection ==
    IF computePolarity.num > 0 THEN RELU_PHASE_ACTIVE ELSE RELU_PHASE_INACTIVE

\* _score after updateScoreBasedOnPolarity(): std::abs of the polarity.
updateScoreBasedOnPolarity ==
    LET polarity == computePolarity
    IN  [num |-> Abs(polarity.num), den |-> polarity.den]

\* Doubles that are not finite, as a division by zero yields them:
\* a quotient with denominator 0 is an infinity of the numerator's sign,
\* or not a number when the numerator is 0 as well.
PlusInfinity == [num |-> 1, den |-> 0]
MinusInfinity == [num |-> 0 - 1, den |-> 0]
NotANumber == [num |-> 0, den |-> 0]

Sign(n) == IF n > 0 THEN 1 ELSE IF n < 0 THEN 0 - 1 ELSE 0

\* x / y for finite x and y.
DoubleOver(x, y) ==
    IF y.num # 0 THEN Over(x, y)
    ELSE [num |-> Sign(x.num), den |-> 0]

\* x * y.
DoubleTimes(x, y) ==
    IF x = NotANumber \/ y = NotANumber THEN NotANumber
    ELSE IF x.den = 0 \/ y.den = 0
    THEN [num |-> Sign(x.num) * Sign(y.num), den |-> 0]
    ELSE Times(x, y)

\* x - y.
DoubleMinus(x, y) ==
    IF x = NotANumber \/ y = NotANumber THEN NotANumber
    ELSE IF x.den = 0 /\ y.den = 0
    THEN IF x = y THEN NotANumber ELSE x
    ELSE IF x.den = 0 THEN x
    ELSE IF y.den = 0 THEN [num |-> 0 - y.num, den |-> 0]
    ELSE Minus(x, y)

\* x < y; false when either is not a number.
DoubleLess(x, y) ==
    IF x = NotANumber \/ y = NotANumber THEN FALSE
    ELSE IF x = y THEN FALSE
    ELSE IF x = MinusInfinity \/ y = PlusInfinity THEN TRUE
    ELSE IF x = PlusInfinity \/ y = MinusInfinity THEN FALSE
    ELSE x.num * y.den < y.num * x.den

\* std::min( x, y ): y when y < x, else x.
DoubleMin(x, y) == IF DoubleLess(y, x) THEN y ELSE x

\* std::abs.
DoubleAbs(x) == [num |-> Abs(x.num), den |-> x.den]

\* What computeBaBsr() returns, or the MarabouError it throws without a
\* network level reasoner.  biasTerm is the reasoner's getPreviousBias,
\* reluInput and reluOutput are the tableau's values of b and f.
computeBaBsr(networkLevelReasoner, biasTerm, reluInput, reluOutput) ==
    IF ~networkLevelReasoner
    THEN [error |-> "NETWORK_LEVEL_REASONER_NOT_AVAILABLE",
          value |-> NotANumber]
    ELSE LET ub == Whole(getUpperBound(b))
             lb == Whole(getLowerBound(b))
             scaler == DoubleOver(ub, Minus(ub, lb))
             term1 ==
                 DoubleMin(
                     DoubleTimes(DoubleTimes(scaler, Whole(reluInput)),
                                 Whole(biasTerm)),
                     DoubleTimes(DoubleTimes(DoubleMinus(scaler, Whole(1)),
                                             Whole(reluInput)),
                                 Whole(biasTerm)))
             term2 == DoubleTimes(DoubleTimes(scaler, lb), Whole(reluOutput))
         IN  [error |-> "none", value |-> DoubleMinus(term1, term2)]

\* A standalone constraint that has been notified of a lower and of an
\* upper bound of b: every pair of cached bounds of b, with the phase the
\* two notifications leave.
InitPolarity ==
    /\ b = 0
    /\ f = 1
    /\ auxVarInUse \in BOOLEAN
    /\ aux \in IF auxVarInUse THEN {2} ELSE VarIds
    /\ \E bl \in Values, bu \in Values :
           /\ lowerBounds = MapSet(EmptyMap, b, bl)
           /\ upperBounds = MapSet(EmptyMap, b, bu)
           /\ phaseStatus =
                  checkIfUpperBoundUpdateFixesPhase(
                      checkIfLowerBoundUpdateFixesPhase(PHASE_NOT_FIXED, b, bl),
                      b, bu)
    /\ boundManager = FALSE
    /\ constraintActive = TRUE
    /\ produceProofs = FALSE
    /\ tableauAuxVars = << >>
    /\ tighteningRow = NULL
    /\ assignment = EmptyMap
    /\ bmLower = [v \in VarIds |-> 0 - Inf]
    /\ bmUpper = [v \in VarIds |-> Inf]
    /\ issued = << >>
    /\ outcome = "ok"
    /\ lastCall = NoCall
    /\ returned = "none"
    /\ nCalls = 0
    /\ direction = PHASE_NOT_FIXED
    /\ tableau = NoTableau
    /\ query = InitialQuery(auxVarInUse, aux)
    /\ other = NoInstance
    /\ score = Whole(0 - Inf)
    /\ haveEliminatedVariables = FALSE

ComputePolarity ==
    /\ returned' = computePolarity
    /\ lastCall' = [op |-> "computePolarity"]
    /\ QueryFrame

UpdateDirection ==
    /\ direction' = updateDirection
    /\ lastCall' = [op |-> "updateDirection"]
    /\ UNCHANGED << b, f, aux, auxVarInUse, phaseStatus, lowerBounds,
                    upperBounds, constraintActive, tighteningRow,
                    tableauAuxVars, assignment, boundManager, produceProofs,
                    bmLower, bmUpper, issued, outcome, returned, nCalls,
                    tableau, query, other, score, haveEliminatedVariables >>

UpdateScoreBasedOnPolarity ==
    /\ score' = updateScoreBasedOnPolarity
    /\ lastCall' = [op |-> "updateScoreBasedOnPolarity"]
    /\ UNCHANGED << b, f, aux, auxVarInUse, phaseStatus, lowerBounds,
                    upperBounds, constraintActive, tighteningRow,
                    tableauAuxVars, assignment, boundManager, produceProofs,
                    bmLower, bmUpper, issued, outcome, returned, nCalls,
                    direction, tableau, query, other,
                    haveEliminatedVariables >>

\* updateScoreBasedOnBaBsr(): _score becomes std::abs of computeBaBsr(),
\* and is left alone when computeBaBsr() throws.
UpdateScoreBasedOnBaBsr(networkLevelReasoner, biasTerm, reluInput, reluOutput) ==
    /\ LET r == computeBaBsr(networkLevelReasoner, biasTerm, reluInput,
                             reluOutput)
       IN  /\ score' = IF r.error = "none" THEN DoubleAbs(r.value) ELSE score
           /\ lastCall' = [op |-> "updateScoreBasedOnBaBsr",
                           error |-> r.error]
    /\ UNCHANGED << b, f, aux, auxVarInUse, phaseStatus, lowerBounds,
                    upperBounds, constraintActive, tighteningRow,
                    tableauAuxVars, assignment, boundManager, produceProofs,
                    bmLower, bmUpper, issued, outcome, returned, nCalls,
                    direction, tableau, query, other,
                    haveEliminatedVariables >>

NextPolarity ==
    \/ ComputePolarity
    \/ UpdateDirection
    \/ UpdateScoreBasedOnPolarity

\* The other scoring strategy, with every answer of the network level
\* reasoner and of the tableau.
NextBaBsr ==
    \E networkLevelReasoner \in BOOLEAN, biasTerm \in Values,
       reluInput \in Values, reluOutput \in Values :
        UpdateScoreBasedOnBaBsr(networkLevelReasoner, biasTerm, reluInput,
                                reluOutput)

SpecBaBsr == InitPolarity /\ [][NextBaBsr]_vars

SpecPolarity == InitPolarity /\ [][NextPolarity]_vars

----------------------------------------------------------------------------
(* Reindexing. *)

IndexIds == 0..MaxIndex

\* Map::erase.
MapErase(map, key) == [k \in (DOMAIN map) \ {key} |-> map[k]]

\* A faulty variant: the cached bounds are copied to the new index and left
\* at the old one.
MutUpdateVariableIndex(oldIndex, newIndex) ==
    [lowerBounds |-> IF existsLowerBound(oldIndex)
                     THEN MapSet(lowerBounds, newIndex, lowerBounds[oldIndex])
                     ELSE lowerBounds,
     upperBounds |-> IF existsUpperBound(oldIndex)
                     THEN MapSet(upperBounds, newIndex, upperBounds[oldIndex])
                     ELSE upperBounds,
     b |-> IF oldIndex = b THEN newIndex ELSE b,
     f |-> IF oldIndex = b THEN f
           ELSE IF oldIndex = f THEN newIndex ELSE f,
     aux |-> IF oldIndex = b \/ oldIndex = f THEN aux ELSE newIndex]

\* The members updateVariableIndex( oldIndex, newIndex ) writes; its
\* assertions are compiled out of a release build.
updateVariableIndex(oldIndex, newIndex) ==
    [lowerBounds |-> IF existsLowerBound(oldIndex)
                     THEN MapErase(MapSet(lowerBounds, newIndex,
                                          lowerBounds[oldIndex]),
                                   oldIndex)
                     ELSE lowerBounds,
     upperBounds |-> IF existsUpperBound(oldIndex)
                     THEN MapErase(MapSet(upperBounds, newIndex,
                                          upperBounds[oldIndex]),
                                   oldIndex)
                     ELSE upperBounds,
     b |-> IF oldIndex = b THEN newIndex ELSE b,
     f |-> IF oldIndex = b THEN f
           ELSE IF oldIndex = f THEN newIndex ELSE f,
     aux |-> IF oldIndex = b \/ oldIndex = f THEN aux ELSE newIndex]

\* The preprocessor moves a participating variable to an index that the
\* constraint neither uses nor holds a bound for, as the assertions of
\* updateVariableIndex require of it.
UpdateVariableIndex(oldIndex, newIndex) ==
    /\ nCalls < MaxCalls
    /\ oldIndex = b \/ oldIndex = f \/ (auxVarInUse /\ oldIndex = aux)
    /\ ~existsLowerBound(newIndex) /\ ~existsUpperBound(newIndex)
    /\ newIndex # b /\ newIndex # f /\ (~auxVarInUse \/ newIndex # aux)
    /\ LET r == updateVariableIndex(oldIndex, newIndex)
       IN  /\ lowerBounds' = r.lowerBounds
           /\ upperBounds' = r.upperBounds
           /\ b' = r.b
           /\ f' = r.f
           /\ aux' = r.aux
    /\ lastCall' = [op |-> "updateVariableIndex", oldIndex |-> oldIndex,
                    newIndex |-> newIndex]
    /\ nCalls' = nCalls + 1
    /\ UNCHANGED << auxVarInUse, phaseStatus, constraintActive,
                    tighteningRow, tableauAuxVars, assignment, boundManager,
                    produceProofs, bmLower, bmUpper, issued, outcome,
                    returned, direction, tableau, query, other, score,
                    haveEliminatedVariables >>

NextIndex ==
    \/ \E variable \in IndexIds, newBound \in Values :
           NotifyLowerBound(variable, newBound)
    \/ \E variable \in IndexIds, newBound \in Values :
           NotifyUpperBound(variable, newBound)
    \/ \E oldIndex \in IndexIds, newIndex \in IndexIds :
           UpdateVariableIndex(oldIndex, newIndex)

SpecIndex == InitStandalone /\ [][NextIndex]_vars

----------------------------------------------------------------------------
(* Elimination of a variable, and the return to a snapshot. *)

\* What constraintObsolete() returns.
constraintObsolete == haveEliminatedVariables

\* The preprocessor has fixed a participating variable to a value; the
\* checks on the value are made in a debug build only.
EliminateVariable(variable, fixedValue) ==
    /\ variable = b \/ variable = f \/ (auxVarInUse /\ variable = aux)
    /\ haveEliminatedVariables' = TRUE
    /\ lastCall' = [op |-> "eliminateVariable", variable |-> variable]
    /\ UNCHANGED << b, f, aux, auxVarInUse, phaseStatus, lowerBounds,
                    upperBounds, constraintActive, tighteningRow,
                    tableauAuxVars, assignment, boundManager, produceProofs,
                    bmLower, bmUpper, issued, outcome, returned, nCalls,
                    direction, tableau, query, other, score >>

\* restoreState( state ) on the snapshot duplicateConstraint() made:
\* *this = *relu assigns every member of the snapshot, the three
\* context-dependent pointers excepted.
RestoreState ==
    /\ other # NoInstance
    /\ b' = other[1].b
    /\ f' = other[1].f
    /\ aux' = other[1].aux
    /\ auxVarInUse' = other[1].auxVarInUse
    /\ direction' = other[1].direction
    /\ phaseStatus' = other[1].phaseStatus
    /\ lowerBounds' = other[1].lowerBounds
    /\ upperBounds' = other[1].upperBounds
    /\ haveEliminatedVariables' = other[1].haveEliminatedVariables
    /\ constraintActive' = other[1].constraintActive
    /\ tighteningRow' = other[1].tighteningRow
    /\ tableauAuxVars' = other[1].tableauAuxVars
    /\ assignment' = other[1].assignment
    /\ score' = other[1].score
    /\ lastCall' = [op |-> "restoreState"]
    /\ UNCHANGED << boundManager, produceProofs, bmLower, bmUpper, issued,
                    outcome, returned, nCalls, tableau, query, other >>

NextElim ==
    \/ \E variable \in VarIds, newBound \in Values :
           NotifyLowerBound(variable, newBound)
    \/ \E variable \in VarIds, newBound \in Values :
           NotifyUpperBound(variable, newBound)
    \/ \E oldIndex \in IndexIds, newIndex \in IndexIds :
           UpdateVariableIndex(oldIndex, newIndex)
    \/ \E variable \in IndexIds, fixedValue \in Values :
           EliminateVariable(variable, fixedValue)
    \/ DuplicateConstraint
    \/ RestoreState

SpecElim == InitStandalone /\ [][NextElim]_vars

----------------------------------------------------------------------------
(* Properties. *)

IsNotification(call) == call.op \in {"notifyLowerBound", "notifyUpperBound"}

\* The tightenings of a sequence of calls, without their justifications.
Requests(calls) ==
    { [variable |-> calls[i].variable, value |-> calls[i].value,
       type |-> calls[i].type] : i \in 1..Len(calls) }

Max(x, y) == IF x >= y THEN x ELSE y

\* C1: once the phase is Active or Inactive, no notification changes it.
C1_PhaseNeverChangesOnceFixed ==
    [][phaseStatus # PHASE_NOT_FIXED => phaseStatus' = phaseStatus]_vars

\* The phase the lower-bound rules of C2 give for a bound on a variable.
C2_Rule(variable, bound) ==
    IF variable = f /\ bound > 0 THEN RELU_PHASE_ACTIVE
    ELSE IF variable = b /\ bound >= 0 THEN RELU_PHASE_ACTIVE
    ELSE IF auxVarInUse /\ variable = aux /\ bound > 0 THEN RELU_PHASE_INACTIVE
    ELSE PHASE_NOT_FIXED

\* C2: from phase NotFixed, an accepted lower-bound notification makes the
\* phase Active on f > 0 or b >= 0, Inactive on aux > 0 (aux in use), and
\* leaves it NotFixed in every other case.
C2_LowerBoundFixation ==
    (lastCall.op = "notifyLowerBound" /\ lastCall.tighter
        /\ lastCall.entryPhase = PHASE_NOT_FIXED)
    => phaseStatus = C2_Rule(lastCall.variable, lastCall.newBound)

C2_Witness ==
    /\ lastCall.op = "notifyLowerBound" /\ lastCall.tighter
    /\ lastCall.entryPhase = PHASE_NOT_FIXED
    /\ auxVarInUse /\ lastCall.variable = aux /\ lastCall.newBound > 0
    /\ phaseStatus = RELU_PHASE_INACTIVE

\* The phase the upper-bound rules of C3 give for a bound on a variable.
C3_Rule(variable, bound) ==
    IF (variable = f \/ variable = b) /\ bound <= 0 THEN RELU_PHASE_INACTIVE
    ELSE IF auxVarInUse /\ variable = aux /\ bound = 0 THEN RELU_PHASE_ACTIVE
    ELSE PHASE_NOT_FIXED

\* C3: from phase NotFixed, an accepted upper-bound notification makes the
\* phase Inactive on f <= 0 or b <= 0, Active on aux = 0 (aux in use), and
\* leaves it NotFixed in every other case.
C3_UpperBoundFixation ==
    (lastCall.op = "notifyUpperBound" /\ lastCall.tighter
        /\ lastCall.entryPhase = PHASE_NOT_FIXED)
    => phaseStatus = C3_Rule(lastCall.variable, lastCall.newBound)

C3_Witness ==
    /\ lastCall.op = "notifyUpperBound" /\ lastCall.tighter
    /\ lastCall.entryPhase = PHASE_NOT_FIXED
    /\ auxVarInUse /\ lastCall.variable = aux /\ lastCall.newBound = 0
    /\ phaseStatus = RELU_PHASE_ACTIVE

\* A step that is a bound notification.
NotificationStep == nCalls' = nCalls + 1 /\ IsNotification(lastCall')

\* The bounds known for the variables do not loosen in a step.
BoundsOnlyTighten ==
    /\ \A v \in DOMAIN lowerBounds :
           v \in DOMAIN lowerBounds' /\ lowerBounds'[v] >= lowerBounds[v]
    /\ \A v \in DOMAIN upperBounds :
           v \in DOMAIN upperBounds' /\ upperBounds'[v] <= upperBounds[v]
    /\ \A v \in VarIds : bmLower'[v] >= bmLower[v] /\ bmUpper'[v] <= bmUpper[v]

\* A step that changes neither bounds nor phase and issues no tightening.
NoOpStep ==
    /\ UNCHANGED << phaseStatus, lowerBounds, upperBounds, bmLower, bmUpper,
                    score, haveEliminatedVariables >>
    /\ issued' = << >>

\* C4 as stated: in both modes a notification whose bound is not strictly
\* tighter than the known one is a no-op, and known bounds only tighten.
C4_AsStated ==
    [][NotificationStep =>
          /\ (~lastCall'.tighter => NoOpStep)
          /\ BoundsOnlyTighten]_vars

\* C4: in standalone mode a notification whose bound is not strictly
\* tighter than the cached one is a no-op and a tighter one is cached; in
\* both modes the known bounds only tighten.
C4_StandaloneNoOpAndMonotone ==
    [][NotificationStep =>
          /\ (~boundManager /\ ~lastCall'.tighter => NoOpStep)
          /\ (~boundManager /\ lastCall'.tighter =>
                IF lastCall'.op = "notifyLowerBound"
                THEN lowerBounds'[lastCall'.variable] = lastCall'.newBound
                ELSE upperBounds'[lastCall'.variable] = lastCall'.newBound)
          /\ BoundsOnlyTighten]_vars

C4_Witness ==
    /\ ~boundManager /\ IsNotification(lastCall) /\ ~lastCall.tighter
    /\ nCalls = 2 /\ phaseStatus # PHASE_NOT_FIXED

\* C5: with a bound manager, the constraint active and the phase NotFixed
\* at entry, a lower-bound notification on f or b whose lower bound (the
\* one the bound manager holds for it, which is the notified value
\* whenever that value tightens) is positive makes the phase Active, asks
\* for the partner's lower bound to be that value and, with aux in use,
\* for aux's upper bound to be 0.
C5_PositiveLowerBoundPropagates ==
    (/\ lastCall.op = "notifyLowerBound" /\ boundManager /\ constraintActive
     /\ lastCall.entryPhase = PHASE_NOT_FIXED
     /\ lastCall.variable \in {b, f}
     /\ lastCall.bound > 0)
    => LET partner == IF lastCall.variable = f THEN b ELSE f
       IN  /\ phaseStatus = RELU_PHASE_ACTIVE
           /\ lastCall.tighter => lastCall.bound = lastCall.newBound
           /\ [variable |-> partner, value |-> lastCall.bound, type |-> LB]
                  \in Requests(issued)
           /\ bmLower[partner] >= lastCall.bound
           /\ auxVarInUse =>
                  /\ [variable |-> aux, value |-> 0, type |-> UB]
                         \in Requests(issued)
                  /\ bmUpper[aux] <= 0

C5_Witness ==
    /\ lastCall.op = "notifyLowerBound" /\ boundManager /\ constraintActive
    /\ lastCall.entryPhase = PHASE_NOT_FIXED
    /\ lastCall.variable = f /\ lastCall.newBound = 1 /\ lastCall.tighter
    /\ auxVarInUse
    /\ phaseStatus = RELU_PHASE_ACTIVE
    /\ bmLower[b] = 1 /\ bmUpper[aux] = 0

\* C6: an upper-bound notification that finds f's bound negative with the
\* phase Inactive, or aux's bound negative with the phase Active, raises
\* infeasibility and sends nothing to the bound manager, with or without
\* proofs.
C6_ImpossibleBoundIsInfeasible ==
    (/\ lastCall.op = "notifyUpperBound" /\ boundManager /\ constraintActive
     /\ lastCall.entryPhase = PHASE_NOT_FIXED
     /\ lastCall.bound < 0
     /\ \/ lastCall.variable = f /\ phaseStatus = RELU_PHASE_INACTIVE
        \/ auxVarInUse /\ lastCall.variable = aux
                       /\ phaseStatus = RELU_PHASE_ACTIVE)
    => outcome = "infeasible" /\ issued = << >>

\* C7: in every state, for every notification, the proof-producing path
\* and the plain path give the same phase, raise infeasibility alike and
\* ask the bound manager for the same tightenings.
C7_ModesAgree ==
    boundManager =>
        \A variable \in VarIds, newBound \in Values :
            LET lbs == bmSetLowerBound(bmLower, variable, newBound)
                ubs == bmSetUpperBound(bmUpper, variable, newBound)
                lp == notifyLowerBound(lbs, variable, newBound, TRUE)
                lq == notifyLowerBound(lbs, variable, newBound, FALSE)
                up == notifyUpperBound(ubs, variable, newBound, TRUE)
                uq == notifyUpperBound(ubs, variable, newBound, FALSE)
            IN  /\ lp.phase = lq.phase /\ up.phase = uq.phase
                /\ lp.infeasible = lq.infeasible
                /\ up.infeasible = uq.infeasible
                /\ Requests(lp.issued) = Requests(lq.issued)
                /\ Requests(up.issued) = Requests(uq.issued)

\* C8: with proofs produced, every tightening sent to the bound manager
\* carries the built row or a lemma citing the notified variable, its
\* bound kind and the ReLU tag.
C8_EveryTighteningJustified ==
    (produceProofs /\ IsNotification(lastCall)) =>
        \A i \in 1..Len(issued) :
            \/ issued[i].just.kind = "row" /\ tighteningRow # NULL
            \/ /\ issued[i].just.kind = "lemma"
               /\ issued[i].just.cause = lastCall.variable
               /\ issued[i].just.causeType =
                      (IF lastCall.op = "notifyLowerBound" THEN LB ELSE UB)
               /\ issued[i].just.tag = "RELU"

AsText(bool) == IF bool THEN "true" ELSE "false"

\* C9: with b and f assigned, satisfied() returns true exactly when
\* f = max(b, 0) within the tolerance: false when f < 0, b = f when f > 0,
\* b <= 0 when f = 0.
C9_SatisfiedIsRelu ==
    (lastCall.op = "satisfied" /\ existsAssignment(b) /\ existsAssignment(f))
    => LET bValue == assignment[b]
           fValue == assignment[f]
       IN  /\ returned = AsText(Abs(fValue - Max(bValue, 0))
                                   <= CONSTRAINT_COMPARISON_TOLERANCE)
           /\ fValue < 0 => returned = "false"
           /\ fValue > 0 => returned = AsText(bValue = fValue)
           /\ fValue = 0 => returned = AsText(bValue <= 0)

C9_Witness ==
    /\ lastCall.op = "satisfied" /\ existsAssignment(b) /\ existsAssignment(f)
    /\ assignment[f] = 0 /\ assignment[b] < 0 /\ returned = "true"

\* C10: satisfied() throws the missing-assignment error exactly when b or
\* f has no value; a missing value of aux alone never causes it.
C10_MissingAssignment ==
    lastCall.op = "satisfied" =>
        /\ (returned = "PARTICIPATING_VARIABLE_MISSING_ASSIGNMENT")
               <=> (b \notin DOMAIN assignment \/ f \notin DOMAIN assignment)
        /\ returned \in {"true", "false",
                         "PARTICIPATING_VARIABLE_MISSING_ASSIGNMENT"}

C10_Witness ==
    /\ lastCall.op = "satisfied"
    /\ b \in DOMAIN assignment /\ f \notin DOMAIN assignment
    /\ returned = "PARTICIPATING_VARIABLE_MISSING_ASSIGNMENT"

\* C11: getCaseSplits() throws REQUESTED_CASE_SPLITS_FROM_FIXED_CONSTRAINT
\* and returns no list whenever the phase is Active or Inactive, whatever
\* the hint and the assignment; with the phase NotFixed it returns without
\* error.
C11_CaseSplitsOnlyWhenNotFixed ==
    lastCall.op = "getCaseSplits"
    => IF phaseStatus \in {RELU_PHASE_ACTIVE, RELU_PHASE_INACTIVE}
       THEN /\ returned.error = "REQUESTED_CASE_SPLITS_FROM_FIXED_CONSTRAINT"
            /\ returned.splits = << >>
       ELSE returned.error = "none"

C11_Witness ==
    /\ lastCall.op = "getCaseSplits"
    /\ phaseStatus = RELU_PHASE_INACTIVE
    /\ direction = RELU_PHASE_ACTIVE
    /\ existsAssignment(f)
    /\ returned.error = "REQUESTED_CASE_SPLITS_FROM_FIXED_CONSTRAINT"

\* The order of the two cases by the precedence of C12.
C12_Order ==
    IF direction = RELU_PHASE_ACTIVE
    THEN << RELU_PHASE_ACTIVE, RELU_PHASE_INACTIVE >>
    ELSE IF direction = RELU_PHASE_INACTIVE
    THEN << RELU_PHASE_INACTIVE, RELU_PHASE_ACTIVE >>
    ELSE IF existsAssignment(f) /\ assignment[f] > 0
    THEN << RELU_PHASE_ACTIVE, RELU_PHASE_INACTIVE >>
    ELSE << RELU_PHASE_INACTIVE, RELU_PHASE_ACTIVE >>

C12_SplitOf(phase) ==
    IF phase = RELU_PHASE_ACTIVE THEN getActiveSplit ELSE getInactiveSplit

\* C12: getAllCases() and, with the phase NotFixed, getCaseSplits() yield
\* the two cases Active and Inactive, each once, in the same order: the
\* hinted phase first; without a hint Active first exactly when f has a
\* positive assignment; Inactive first otherwise.
C12_CaseOrder ==
    /\ lastCall.op = "getAllCases" => returned = C12_Order
    /\ (lastCall.op = "getCaseSplits" /\ phaseStatus = PHASE_NOT_FIXED)
       => /\ Len(returned.splits) = Len(C12_Order)
          /\ \A i \in 1..Len(C12_Order) :
                 returned.splits[i] = C12_SplitOf(C12_Order[i])
          /\ getActiveSplit # getInactiveSplit

C12_Witness ==
    /\ lastCall.op = "getAllCases"
    /\ direction = RELU_PHASE_INACTIVE
    /\ existsAssignment(f) /\ assignment[f] > 0
    /\ returned = << RELU_PHASE_INACTIVE, RELU_PHASE_ACTIVE >>

\* The Active split as C13 describes it.
C13_Active ==
    IF auxVarInUse
    THEN [tightenings |-> << [variable |-> b, value |-> 0, type |-> LB],
                             [variable |-> aux, value |-> 0, type |-> UB] >>,
          equations |-> << >>]
    ELSE [tightenings |-> << [variable |-> b, value |-> 0, type |-> LB] >>,
          equations |-> << [type |-> "EQ",
                            addends |-> << << 1, b >>, << 0 - 1, f >> >>,
                            scalar |-> 0] >>]

\* The Inactive split as C13 describes it.
C13_Inactive ==
    [tightenings |-> << [variable |-> b, value |-> 0, type |-> UB],
                        [variable |-> f, value |-> 0, type |-> UB] >>,
     equations |-> << >>]

\* C13: the Active split is b >= 0 with aux <= 0 and no equation (slack in
\* use) or with the one equation b - f = 0 (no slack); the Inactive split
\* is b <= 0, f <= 0 and no equation; getCaseSplit( phase ) and
\* getImpliedCaseSplit() return these splits for the phase asked for and
\* the phase fixed.
C13_SplitContents ==
    /\ (lastCall.op = "getCaseSplit" /\ lastCall.phase = RELU_PHASE_ACTIVE)
       => returned = [error |-> "none", split |-> C13_Active]
    /\ (lastCall.op = "getCaseSplit" /\ lastCall.phase = RELU_PHASE_INACTIVE)
       => returned = [error |-> "none", split |-> C13_Inactive]
    /\ (lastCall.op = "getImpliedCaseSplit"
            /\ phaseStatus = RELU_PHASE_ACTIVE)
       => returned = C13_Active
    /\ (lastCall.op = "getImpliedCaseSplit"
            /\ phaseStatus = RELU_PHASE_INACTIVE)
       => returned = C13_Inactive
    /\ (lastCall.op = "getCaseSplits" /\ returned.error = "none")
       => \A i \in 1..Len(returned.splits) :
              returned.splits[i] \in {C13_Active, C13_Inactive}

C13_Witness ==
    /\ lastCall.op = "getImpliedCaseSplit"
    /\ phaseStatus = RELU_PHASE_ACTIVE
    /\ auxVarInUse
    /\ Len(returned.tightenings) = Len(<< b, aux >>)
    /\ returned.equations = << >>

\* The point of the relation over b's value: f = max(b, 0), aux = f - b.
C14_Point(bValue) ==
    [bValue |-> bValue, fValue |-> Max(bValue, 0),
     auxValue |-> Max(bValue, 0) - bValue]

\* The point lies within the cached bounds.
C14_WithinBounds(point) ==
    /\ lowerBounds[b] <= point.bValue /\ point.bValue <= upperBounds[b]
    /\ lowerBounds[f] <= point.fValue /\ point.fValue <= upperBounds[f]
    /\ auxVarInUse => /\ lowerBounds[aux] <= point.auxValue
                      /\ point.auxValue <= upperBounds[aux]

\* The point satisfies the tightening.
C14_Keeps(tightening, point) ==
    LET value == IF auxVarInUse /\ tightening.variable = aux
                 THEN point.auxValue
                 ELSE IF tightening.variable = b THEN point.bValue
                 ELSE point.fValue
    IN  IF tightening.type = LB THEN value >= tightening.value
        ELSE value <= tightening.value

\* C14: every tightening getEntailedTightenings returns is satisfied by
\* every point (b, f, aux) with f = max(b, 0) and aux = f - b that lies
\* within the cached bounds.
C14_EntailedTighteningsSound ==
    lastCall.op = "getEntailedTightenings"
    => \A bValue \in Values :
           C14_WithinBounds(C14_Point(bValue))
           => \A i \in 1..Len(returned) :
                  C14_Keeps(returned[i], C14_Point(bValue))

C14_Witness ==
    /\ lastCall.op = "getEntailedTightenings"
    /\ auxVarInUse
    /\ lowerBounds[b] < 0 /\ upperBounds[b] > 0
    /\ C14_WithinBounds(C14_Point(0 - 1))
    /\ C14_WithinBounds(C14_Point(1))
    /\ \E i \in 1..Len(returned) :
           /\ returned[i].variable = aux
           /\ returned[i].type = UB
           /\ returned[i].value = 0 - lowerBounds[b]

\* C15: when the tableau reports b and f linearly independent,
\* getSmartFixes returns the very list of getPossibleFixes(): the same
\* fixes in the same order.
C15_SmartFixesWithoutDependency ==
    (lastCall.op = "getSmartFixes" /\ ~tableau.linearlyDependent)
    => /\ Len(returned) = Len(getPossibleFixes)
       /\ \A i \in 1..Len(returned) : returned[i] = getPossibleFixes[i]

C15_Witness ==
    /\ lastCall.op = "getSmartFixes"
    /\ ~tableau.linearlyDependent
    /\ tableau.bIsBasic
    /\ satisfied = "false"
    /\ direction = RELU_PHASE_INACTIVE
    /\ returned = << Fix(f, Whole(0)), Fix(b, Whole(assignment[f])) >>

\* The values of b and f once the fix is applied: the fixed variable takes
\* the fix's value and the basic one moves by the coefficient times the
\* change.
C16_Applied(fix) ==
    LET bValue == Whole(assignment[b])
        fValue == Whole(assignment[f])
    IN  IF fix.variable = b
        THEN [bValue |-> fix.value,
              fValue |-> Plus(fValue, Times(tableau.bDeltaToFDelta,
                                            Minus(fix.value, bValue)))]
        ELSE [bValue |-> Plus(bValue, Times(tableau.fDeltaToBDelta,
                                            Minus(fix.value, fValue))),
              fValue |-> fix.value]

\* The relation f = max(b, 0) at a point.
C16_Relu(point) ==
    \/ point.fValue.num > 0 /\ point.bValue = point.fValue
    \/ point.fValue.num = 0 /\ point.bValue.num <= 0

\* C16: with b and f linearly dependent, every fix getSmartFixes returns
\* for an unsatisfied assignment (f not negative), applied to the non-basic
\* variable with the basic one following, yields an assignment that
\* satisfies the relation: b = f >= 0 or f = 0 with b <= 0.
C16_SmartFixesRepair ==
    (lastCall.op = "getSmartFixes" /\ tableau.linearlyDependent
        /\ satisfied = "false" /\ assignment[f] >= 0)
    => \A i \in 1..Len(returned) : C16_Relu(C16_Applied(returned[i]))

\* The list C17 gives for the assignment and the hint.
C17_Fixes ==
    LET bValue == assignment[b]
        fValue == assignment[f]
        set(variable, value) ==
            [variable |-> variable, value |-> [num |-> value, den |-> 1]]
    IN  IF fValue > 0 /\ bValue > 0
        THEN << set(b, fValue), set(f, bValue) >>
        ELSE IF fValue > 0
        THEN IF direction = RELU_PHASE_INACTIVE
             THEN << set(f, 0), set(b, fValue) >>
             ELSE << set(b, fValue), set(f, 0) >>
        ELSE IF direction = RELU_PHASE_ACTIVE
             THEN << set(f, bValue), set(b, 0) >>
             ELSE << set(b, 0), set(f, bValue) >>

\* C17: on an unsatisfied assignment getPossibleFixes returns two fixes:
\* for f > 0, b > 0: b := f, f := b; for f > 0, b <= 0: f := 0, b := f
\* under the hint Inactive and b := f, f := 0 otherwise; for f <= 0:
\* f := b, b := 0 under the hint Active and b := 0, f := b otherwise.
C17_PossibleFixes ==
    (lastCall.op = "getPossibleFixes" /\ satisfied = "false")
    => returned = C17_Fixes

C17_Witness ==
    /\ lastCall.op = "getPossibleFixes"
    /\ satisfied = "false"
    /\ assignment[f] > 0 /\ assignment[b] < 0
    /\ direction = RELU_PHASE_INACTIVE
    /\ returned[1].variable = f

\* The decimal numeral of an index below one hundred.
C18_Numeral(n) ==
    LET numerals == << "0", "1", "2", "3", "4", "5", "6", "7", "8", "9" >>
    IN  IF n < 10 THEN << numerals[n + 1] >>
        ELSE << numerals[(n \div 10) + 1], numerals[(n % 10) + 1] >>

\* C18: the text of a constraint is "relu,<f>,<b>" or, with the slack in
\* use, "relu,<f>,<b>,<aux>", and the constraint built from that text has
\* the same b, the same f, the same aux-in-use flag and, when in use, the
\* same aux.
C18_SerializationRoundTrip ==
    lastCall.op = "ReluConstraint"
    => /\ lastCall.serializedRelu =
              << "r", "e", "l", "u", "," >> \o C18_Numeral(f) \o << "," >>
              \o C18_Numeral(b)
              \o (IF auxVarInUse THEN << "," >> \o C18_Numeral(aux)
                  ELSE << >>)
       /\ other[1].b = b
       /\ other[1].f = f
       /\ other[1].auxVarInUse = auxVarInUse
       /\ auxVarInUse => other[1].aux = aux

C18_Witness ==
    /\ lastCall.op = "ReluConstraint"
    /\ auxVarInUse
    /\ b > 9 /\ f < b /\ aux > b
    /\ other[1].aux = aux /\ other[1].b = b /\ other[1].f = f

\* C19: a call of transformToUseAuxVariables that finds the slack unused
\* makes aux the next free index, the variable count one more, adds the
\* one equation f - b - aux = 0 and sets aux in use; a call that finds the
\* slack in use changes neither the query (variable count, equations,
\* bounds) nor aux; so the query never holds more than the one equation.
C19_TransformIdempotent ==
    [][lastCall'.op = "transformToUseAuxVariables"
       => /\ IF auxVarInUse
             THEN /\ query' = query
                  /\ aux' = aux
                  /\ auxVarInUse'
             ELSE /\ aux' = query.numberOfVariables
                  /\ query'.numberOfVariables = query.numberOfVariables + 1
                  /\ query'.equations =
                         Append(query.equations,
                                [type |-> "EQ",
                                 addends |-> << << 1, f >>, << 0 - 1, b >>,
                                                << 0 - 1, aux' >> >>,
                                 scalar |-> 0])
                  /\ auxVarInUse'
          /\ Len(query'.equations) = 1
          /\ query'.numberOfVariables = Cardinality({b, f, aux'})]_vars

C19_Witness ==
    /\ lastCall.op = "transformToUseAuxVariables"
    /\ lastCall.auxVarInUse
    /\ Len(query.equations) = 1
    /\ existsLowerBound(b) /\ lowerBounds[b] < 0
    /\ query.upperBounds[aux] = 0 - lowerBounds[b]

\* C20: once a constraint is duplicated, a standalone notifyLowerBound or
\* notifyUpperBound on either instance leaves the other instance's cached
\* bounds, b, f, aux, aux-in-use flag and hint as they were.
C20_NoSharedBoundState ==
    [][(lastCall'.op \in {"notifyLowerBound", "notifyUpperBound"}
            /\ other # NoInstance)
       => /\ other' # NoInstance
          /\ other'[1].lowerBounds = other[1].lowerBounds
          /\ other'[1].upperBounds = other[1].upperBounds
          /\ other'[1].b = other[1].b
          /\ other'[1].f = other[1].f
          /\ other'[1].aux = other[1].aux
          /\ other'[1].auxVarInUse = other[1].auxVarInUse
          /\ other'[1].direction = other[1].direction]_vars

C20_Witness ==
    /\ other # NoInstance
    /\ other[1].role = "original"
    /\ lastCall.op = "notifyUpperBound" /\ lastCall.tighter
    /\ existsUpperBound(lastCall.variable)
    /\ lastCall.variable \notin DOMAIN other[1].upperBounds
    /\ other[1].lowerBounds # EmptyMap
    /\ lowerBounds = other[1].lowerBounds

\* C22: in integrated mode, with the constraint active, a lower-bound
\* notification on b or f that arrives with the phase already Active and
\* finds a strictly positive bound still tightens the partner's lower bound
\* to that bound.
C22_PropagatesWhenAlreadyActive ==
    (/\ lastCall.op = "notifyLowerBound" /\ boundManager /\ constraintActive
     /\ lastCall.entryPhase = RELU_PHASE_ACTIVE
     /\ lastCall.variable \in {b, f}
     /\ lastCall.bound > 0)
    => LET partner == IF lastCall.variable = f THEN b ELSE f
       IN  /\ [variable |-> partner, value |-> lastCall.bound, type |-> LB]
                  \in Requests(issued)
           /\ bmLower[partner] >= lastCall.bound

\* C23: in integrated mode, with aux in use, the constraint active and the
\* phase NotFixed at entry, a lower-bound notification that finds aux's
\* bound x > 0 makes the phase Inactive and tightens f's upper bound to 0
\* and b's upper bound to -x; one that finds b's bound x < 0 leaves the
\* phase NotFixed and tightens aux's upper bound to -x; one that finds f's
\* bound negative tightens f's lower bound to 0.
C23_NegativeSideLowerBounds ==
    (/\ lastCall.op = "notifyLowerBound" /\ boundManager /\ constraintActive
     /\ auxVarInUse
     /\ lastCall.entryPhase = PHASE_NOT_FIXED)
    => LET x == lastCall.bound
           asked(variable, value, type) ==
               [variable |-> variable, value |-> value, type |-> type]
                   \in Requests(issued)
       IN  /\ (lastCall.variable = aux /\ x > 0) =>
                  /\ phaseStatus = RELU_PHASE_INACTIVE
                  /\ asked(f, 0, UB) /\ asked(b, 0 - x, UB)
                  /\ bmUpper[f] <= 0 /\ bmUpper[b] <= 0 - x
           /\ (lastCall.variable = b /\ x < 0) =>
                  /\ phaseStatus = PHASE_NOT_FIXED
                  /\ asked(aux, 0 - x, UB)
                  /\ bmUpper[aux] <= 0 - x
           /\ (lastCall.variable = f /\ x < 0) =>
                  /\ asked(f, 0, LB)
                  /\ bmLower[f] >= 0

C23_Witness ==
    /\ lastCall.op = "notifyLowerBound" /\ boundManager /\ constraintActive
    /\ auxVarInUse
    /\ lastCall.entryPhase = PHASE_NOT_FIXED
    /\ lastCall.variable = aux /\ lastCall.bound = 1
    /\ phaseStatus = RELU_PHASE_INACTIVE
    /\ bmUpper[f] = 0 /\ bmUpper[b] = 0 - 1

\* The points of the ReLU relation: f = max(b, 0) and aux = f - b.
C28_Points ==
    { << vb, Max(vb, 0), Max(vb, 0) - vb >> : vb \in (0 - Inf)..Inf }

\* The value a point gives to a participating variable.
C28_ValueAt(point, variable) ==
    IF variable = b THEN point[1]
    ELSE IF variable = f THEN point[2]
    ELSE point[3]

\* The point respects the bound the last notification acted on.
C28_Respects(point) ==
    IF lastCall.op = "notifyLowerBound"
    THEN C28_ValueAt(point, lastCall.variable) >= lastCall.bound
    ELSE C28_ValueAt(point, lastCall.variable) <= lastCall.bound

\* C28: every tightening a notification asks of the bound manager is
\* satisfied by every point of the ReLU relation that respects the bound
\* the notification acted on.
C28_PropagationSound ==
    (IsNotification(lastCall) /\ boundManager) =>
        \A i \in 1..Len(issued), point \in C28_Points :
            C28_Respects(point) =>
                IF issued[i].type = LB
                THEN C28_ValueAt(point, issued[i].variable) >= issued[i].value
                ELSE C28_ValueAt(point, issued[i].variable) <= issued[i].value

C28_Witness ==
    /\ lastCall.op = "notifyUpperBound" /\ boundManager /\ constraintActive
    /\ auxVarInUse
    /\ lastCall.variable = b /\ lastCall.bound = 0 - 1
    /\ [variable |-> aux, value |-> 1, type |-> LB] \in Requests(issued)
    /\ [variable |-> f, value |-> 0, type |-> UB] \in Requests(issued)

\* C30: in integrated mode a constraint that is not active in the search
\* asks no tightening of the bound manager and raises no infeasibility on
\* any notification, and a phase that was NotFixed is set by the
\* phase-fixation rules.
C30_InactiveConstraintOnlyFixesPhase ==
    (IsNotification(lastCall) /\ boundManager /\ ~constraintActive) =>
        /\ issued = << >>
        /\ outcome = "ok"
        /\ lastCall.entryPhase = PHASE_NOT_FIXED =>
               phaseStatus =
                   IF lastCall.op = "notifyLowerBound"
                   THEN C2_Rule(lastCall.variable, lastCall.bound)
                   ELSE C3_Rule(lastCall.variable, lastCall.bound)

C30_Witness ==
    /\ lastCall.op = "notifyUpperBound" /\ boundManager /\ ~constraintActive
    /\ lastCall.entryPhase = PHASE_NOT_FIXED
    /\ lastCall.variable = b /\ lastCall.bound = 0
    /\ phaseStatus = RELU_PHASE_INACTIVE
    /\ issued = << >>

\* The row f = b + aux + slack with scalar 0.
C24_IsTheRow(row) ==
    /\ Len(row) = 1
    /\ row[1].lhs = f
    /\ row[1].scalar = 0
    /\ Len(row[1].row) = 3
    /\ { row[1].row[i] : i \in 1..3 } =
           { [var |-> b, coefficient |-> 1],
             [var |-> aux, coefficient |-> 1],
             [var |-> TableauAuxId, coefficient |-> 1] }

\* C24: over any sequence of notifications the tightening row is built at
\* most once, and only with proof production enabled, aux in use and a
\* tableau slack registered; once built it has output variable f, the terms
\* (1, b), (1, aux), (1, slack) and scalar 0, and no later step rebuilds or
\* changes it.
C24_RowBuiltOnce ==
    [][/\ tighteningRow # NULL => tighteningRow' = tighteningRow
       /\ tighteningRow' # NULL =>
              /\ produceProofs /\ auxVarInUse
              /\ tableauAuxVars' = << TableauAuxId >>
              /\ C24_IsTheRow(tighteningRow')]_vars

C24_Witness ==
    /\ tighteningRow # NULL
    /\ lastCall.op = "notifyUpperBound"
    /\ nCalls = MaxCalls
    /\ produceProofs /\ auxVarInUse

\* C29: when the assignment has f >= 0 and does not satisfy the relation,
\* the assignment that results from applying any one fix of
\* getPossibleFixes, changing only the variable the fix names, makes
\* satisfied() true.
C29_PossibleFixesRepair ==
    (lastCall.op = "applyFix" /\ lastCall.violated /\ lastCall.fValue >= 0)
    => satisfied = "true"

C29_Witness ==
    /\ lastCall.op = "applyFix" /\ lastCall.violated
    /\ lastCall.fValue = 0
    /\ lastCall.fix.variable = b
    /\ assignment[b] = 0 /\ assignment[f] = 0
    /\ satisfied = "true"

\* The expression with delta added to the coefficient of one variable, a
\* variable without an addend counting as coefficient 0.
C26_Added(cost, variable, delta) ==
    [v \in (DOMAIN cost) \cup {variable} |->
        (IF v \in DOMAIN cost THEN cost[v] ELSE 0)
        + (IF v = variable THEN delta ELSE 0)]

\* C26: getCostFunctionComponent(cost, phase) leaves cost as it is when the
\* constraint is not active or its phase is fixed; otherwise, for phase
\* Inactive it adds 1 to the coefficient of f and changes nothing else, and
\* for phase Active it adds 1 to the coefficient of f and -1 to that of b,
\* on top of the coefficients already there.
C26_CostComponent ==
    lastCall.op = "getCostFunctionComponent" =>
        IF ~constraintActive \/ phaseStatus # PHASE_NOT_FIXED
        THEN returned = lastCall.cost
        ELSE IF lastCall.phase = RELU_PHASE_INACTIVE
        THEN returned = C26_Added(lastCall.cost, f, 1)
        ELSE returned = C26_Added(C26_Added(lastCall.cost, f, 1), b, 0 - 1)

C26_Witness ==
    /\ lastCall.op = "getCostFunctionComponent"
    /\ constraintActive /\ phaseStatus = PHASE_NOT_FIXED
    /\ lastCall.phase = RELU_PHASE_ACTIVE
    /\ DOMAIN lastCall.cost = {f, 2}
    /\ lastCall.cost[f] = 1
    /\ DOMAIN returned = {b, f, 2}
    /\ returned[f] = 2 /\ returned[b] = 0 - 1
    /\ returned[2] = lastCall.cost[2]

\* The quotient is the polarity C27 gives for the interval [lb, ub].
C27_IsPolarity(q, lb, ub) ==
    /\ q.den > 0
    /\ IF lb >= 0 THEN q.num = q.den
       ELSE IF ub <= 0 THEN q.num = 0 - q.den
       ELSE q.num * (ub - lb) = q.den * (ub + lb)

\* C27: for an interval [lb, ub] of b with lb <= ub, computePolarity
\* returns 1 when lb >= 0, -1 when ub <= 0, and (ub + lb) / (ub - lb)
\* otherwise, a value between -1 and 1; updateDirection makes the hint
\* Active when the polarity is strictly positive and Inactive otherwise;
\* updateScoreBasedOnPolarity makes the score the absolute value of the
\* polarity, between 0 and 1.
C27_PolarityDirectionScore ==
    LET lb == lowerBounds[b]
        ub == upperBounds[b]
        positive == lb >= 0 \/ (ub > 0 /\ ub + lb > 0)
    IN  lb <= ub =>
            /\ lastCall.op = "computePolarity" =>
                   /\ C27_IsPolarity(returned, lb, ub)
                   /\ 0 - returned.den <= returned.num
                   /\ returned.num <= returned.den
            /\ lastCall.op = "updateDirection" =>
                   direction = IF positive THEN RELU_PHASE_ACTIVE
                               ELSE RELU_PHASE_INACTIVE
            /\ lastCall.op = "updateScoreBasedOnPolarity" =>
                   /\ score.num >= 0 /\ score.num <= score.den
                   /\ \/ C27_IsPolarity(score, lb, ub)
                      \/ C27_IsPolarity(Negated(score), lb, ub)

C27_Witness ==
    /\ lastCall.op = "updateScoreBasedOnPolarity"
    /\ lowerBounds[b] = 0 - MaxVal /\ upperBounds[b] = 1
    /\ direction = RELU_PHASE_INACTIVE
    /\ score = Quotient(MaxVal - 1, MaxVal + 1)

\* The cache after the bound of old, when there is one, has moved to new.
C25_Moved(before, after, old, new) ==
    /\ DOMAIN after = ((DOMAIN before) \ {old})
                          \cup (IF old \in DOMAIN before THEN {new} ELSE {})
    /\ old \in DOMAIN before => after[new] = before[old]
    /\ \A v \in (DOMAIN before) \ {old} : after[v] = before[v]

\* C25: updateVariableIndex(old, new), with old participating and new
\* fresh, gives the role of old to new, moves the cached lower and upper
\* bound of old (when present) to new, so that old has no cached bound
\* left, and leaves the other participating variables, their cached
\* bounds, the phase, the direction hint and the aux-in-use flag as they
\* were.
C25_ReindexMovesOneVariable ==
    [][LET old == lastCall'.oldIndex
           new == lastCall'.newIndex
       IN  (/\ lastCall'.op = "updateVariableIndex"
            /\ old = b \/ old = f \/ (auxVarInUse /\ old = aux)
            /\ new \notin {b, f} /\ (auxVarInUse => new # aux)
            /\ new \notin (DOMAIN lowerBounds) \cup (DOMAIN upperBounds))
           => /\ b' = IF old = b THEN new ELSE b
              /\ f' = IF old = f THEN new ELSE f
              /\ auxVarInUse =>
                     aux' = IF old = aux THEN new ELSE aux
              /\ C25_Moved(lowerBounds, lowerBounds', old, new)
              /\ C25_Moved(upperBounds, upperBounds', old, new)
              /\ old \notin (DOMAIN lowerBounds') \cup (DOMAIN upperBounds')
              /\ phaseStatus' = phaseStatus
              /\ direction' = direction
              /\ auxVarInUse' = auxVarInUse]_vars

C25_Witness ==
    /\ lastCall.op = "updateVariableIndex"
    /\ lastCall.oldIndex = 0 /\ lastCall.newIndex = MaxIndex
    /\ b = MaxIndex /\ f = 1
    /\ DOMAIN lowerBounds = {MaxIndex}
    /\ DOMAIN upperBounds = {}
    /\ phaseStatus = RELU_PHASE_ACTIVE

\* C21: constraintObsolete() is false until a participating variable is
\* eliminated, true after eliminateVariable, and stays true whatever
\* follows: notifications, reindexing, duplicateConstraint, and
\* restoreState from a snapshot made earlier.
C21_EliminationPermanent ==
    [][/\ lastCall'.op = "eliminateVariable" => constraintObsolete'
       /\ constraintObsolete => constraintObsolete'
       /\ (~constraintObsolete /\ lastCall'.op # "eliminateVariable")
              => ~constraintObsolete']_vars

====
